---- MODULE Spec2Model ----
(***************************************************************************)
(* A model of the shamela_scraper extraction pipeline:                     *)
(*   - UltraReliableSession._request and ReliabilityMonitor                *)
(*     (src/ultra_reliability_system.py)                                   *)
(*   - the page extraction of scrape_enhanced_book                         *)
(*     (src/core/enhanced_shamela_scraper.py)                              *)
(*   - extract_volumes_from_dropdown / calculate_page_counts_from_reader   *)
(*     (src/core/enhanced_shamela_scraper.py)                              *)
(*   - UltraReliableExtractor with ProgressiveLoader and BackupManager     *)
(*     (src/core/ultra_reliable_extractor.py)                              *)
(* Each part has its own specification over the shared variables; the      *)
(* variables of the parts a specification does not drive keep their idle   *)
(* value.                                                                  *)
(***************************************************************************)
EXTENDS Integers, Sequences, FiniteSets, TLC

VARIABLES
    reliability,   \* ReliabilityConfig of the session
    stats,         \* ReliabilityMonitor.stats
    session,       \* identity of the requests.Session held in self.session
    req,           \* the _request call in progress
    calls,         \* number of _request calls started
    perf,          \* PerformanceConfig of scrape_enhanced_book
    book,          \* the Book of scrape_enhanced_book (fields the pages depend on)
    max_pages,     \* the max_pages argument (None: no limit)
    source,        \* the site: what each reading page answers
    fetched,       \* page numbers whose extraction has completed
    pages,         \* the list `pages` being collected, then book.pages
    spc,           \* where scrape_enhanced_book stands
    reader,        \* the links of the first reading page /book/{id}/1
    volumes,       \* book.volumes
    page_count,    \* book.page_count_internal as computed from the reader
    vpc,           \* where the structure discovery stands
    ultra,         \* UltraReliableConfig of the extractor
    u_max_pages,   \* max_pages given to extract_book_ultra_reliable
    bad_pages,     \* the site: reading pages that fail to load or to validate
    checkpoint_file, \* checkpoint_{book_id}.json
    backup_files,  \* the book's files in backups/, oldest first
    cache,         \* keys of SmartCache's persistent tier (0: the book URL)
    run,           \* the extract_book_ultra_reliable call in progress
    ret,           \* how the last call ended
    runs,          \* number of calls started
    global_cache,  \* the OptimizedCache: cache, access_order, max_size
    touch,  \* for each key, the time of the last get or set that touched it
    clock,  \* number of cache calls made
    last_call,  \* what the last completed cache call did
    workers, \* the cache call each worker thread is inside
    smart_cache,  \* the SmartCache: memory_cache, access_count, persistent tier, cache_size_limit
    smart_touch,  \* for each key, the time of the last SmartCache get or set that used it
    smart_clock,  \* number of SmartCache calls made
    smart_last, \* what the last SmartCache call did
    shared_config,  \* ReliabilityConfig of the session the worker threads share
    shared_stats,  \* ReliabilityMonitor.stats of that session
    shared_session,  \* self.session of that session: the current requests.Session and the closed ones
    thread_req,  \* the _request call each worker thread is inside
    thread_calls, \* number of _request calls the threads started
    retry_config,  \* ReliabilityConfig of the UltraReliableScraper
    retry_call, \* the extract_book_ultra_reliable call of the UltraReliableScraper
    backup_config,  \* enable_backup and max_backup_files of the BackupManager's config
    backup_dir,  \* the files of backup_dir, oldest st_mtime first
    backup_clock,  \* time.time() in seconds, and the number of calls made
    backup_before,  \* backup_dir as the last create_backup call found it, and that call's book_id
    backup_restored, \* what the last restore_from_backup call returned, and for which book_id
    http_config,  \* max_retries, recovery_attempts and max_consecutive_failures of the session's ReliabilityConfig
    http_stats,  \* the ReliabilityMonitor's stats of that session
    http_session,  \* the number of the requests.Session (with its mounted Retry adapter) in use
    http_call,  \* the _request call in progress, with the HTTP attempts its adapter made
    http_calls, \* the number of _request calls made on that session
    mon_config,  \* max_consecutive_failures of the monitor's config
    mon_stats,  \* ReliabilityMonitor.stats, with whether last_success_time is more than 300 s ago
    mon_history,  \* what was recorded: the failures since the last success, and the calls made
    mon_health, \* what the last is_healthy call returned
    pool_config,  \* retries of the AsyncPageExtractor's PerformanceConfig
    pool_range,  \* page_range of the extract_pages_batch_async call
    pool_tasks,  \* per page: the state of its extract_single_page_async task and the requests it issued
    pool_results, \* valid_results once gathered
    safe_args,  \* retries and use_cache of the safe_request call, and whether global_cache holds the url
    safe_call, \* the safe_request call: its loop variable, the HTTP attempts made and how it ended
    chunk_config,  \* process_chunk_size and max_processes of the MultiprocessExtractor's PerformanceConfig
    chunk_total,  \* total_pages of the last _create_page_chunks call, None before the first
    page_chunks  \* the list of (start, end) the last _create_page_chunks call returned

reqVars == <<reliability, stats, session, req, calls>>

scrapeVars == <<perf, book, max_pages, source, fetched, pages, spc>>

volVars == <<reader, volumes, page_count, vpc>>

ultraVars == <<ultra, u_max_pages, bad_pages, checkpoint_file, backup_files,
               cache, run, ret, runs>>

cacheVars == <<global_cache, touch, clock, last_call, workers>>

smartVars == <<smart_cache, smart_touch, smart_clock, smart_last>>

sessVars == <<shared_config, shared_stats, shared_session, thread_req, thread_calls>>

retryVars == <<retry_config, retry_call>>

backupVars == <<backup_config, backup_dir, backup_clock, backup_before, backup_restored>>

transportVars == <<http_config, http_stats, http_session, http_call, http_calls>>

monitorVars == <<mon_config, mon_stats, mon_history, mon_health>>

poolVars == <<pool_config, pool_range, pool_tasks, pool_results>>

safeVars == <<safe_args, safe_call>>

chunkVars == <<chunk_config, chunk_total, page_chunks>>

vars == <<reliability, stats, session, req, calls,
          perf, book, max_pages, source, fetched, pages, spc,
          reader, volumes, page_count, vpc,
          ultra, u_max_pages, bad_pages, checkpoint_file, backup_files,
          cache, run, ret, runs,
          global_cache, touch, clock, last_call, workers,
          smart_cache, smart_touch, smart_clock, smart_last,
          shared_config, shared_stats, shared_session, thread_req, thread_calls,
          retry_config, retry_call,
          backup_config, backup_dir, backup_clock, backup_before, backup_restored,
          http_config, http_stats, http_session, http_call, http_calls,
          mon_config, mon_stats, mon_history, mon_health,
          pool_config, pool_range, pool_tasks, pool_results,
          safe_args, safe_call,
          chunk_config, chunk_total, page_chunks>>

\* What each part leaves alone.
notReqVars == <<scrapeVars, volVars, ultraVars, cacheVars, smartVars, sessVars, retryVars, backupVars, transportVars, monitorVars, poolVars, safeVars, chunkVars>>

notScrapeVars == <<reqVars, volVars, ultraVars, cacheVars, smartVars, sessVars, retryVars, backupVars, transportVars, monitorVars, poolVars, safeVars, chunkVars>>

notVolVars == <<reqVars, scrapeVars, ultraVars, cacheVars, smartVars, sessVars, retryVars, backupVars, transportVars, monitorVars, poolVars, safeVars, chunkVars>>

notUltraVars == <<reqVars, scrapeVars, volVars, cacheVars, smartVars, sessVars, retryVars, backupVars, transportVars, monitorVars, poolVars, safeVars, chunkVars>>

notCacheVars == <<reqVars, scrapeVars, volVars, ultraVars, smartVars, sessVars, retryVars, backupVars, transportVars, monitorVars, poolVars, safeVars, chunkVars>>

notSmartVars == <<reqVars, scrapeVars, volVars, ultraVars, cacheVars, sessVars, retryVars, backupVars, transportVars, monitorVars, poolVars, safeVars, chunkVars>>

notSessVars == <<reqVars, scrapeVars, volVars, ultraVars, cacheVars, smartVars, retryVars, backupVars, transportVars, monitorVars, poolVars, safeVars, chunkVars>>

notRetryVars == <<reqVars, scrapeVars, volVars, ultraVars, cacheVars, smartVars, sessVars, backupVars, transportVars, monitorVars, poolVars, safeVars, chunkVars>>

notBackupVars == <<reqVars, scrapeVars, volVars, ultraVars, cacheVars, smartVars, sessVars, retryVars, transportVars, monitorVars, poolVars, safeVars, chunkVars>>

notTransportVars == <<reqVars, scrapeVars, volVars, ultraVars, cacheVars, smartVars, sessVars, retryVars, backupVars, monitorVars, poolVars, safeVars, chunkVars>>

notMonitorVars == <<reqVars, scrapeVars, volVars, ultraVars, cacheVars, smartVars, sessVars, retryVars, backupVars, transportVars, poolVars, safeVars, chunkVars>>

notPoolVars == <<reqVars, scrapeVars, volVars, ultraVars, cacheVars, smartVars, sessVars, retryVars, backupVars, transportVars, monitorVars, safeVars, chunkVars>>

notSafeVars == <<reqVars, scrapeVars, volVars, ultraVars, cacheVars, smartVars, sessVars, retryVars, backupVars, transportVars, monitorVars, poolVars, chunkVars>>

notChunkVars == <<reqVars, scrapeVars, volVars, ultraVars, cacheVars, smartVars, sessVars, retryVars, backupVars, transportVars, monitorVars, poolVars, safeVars>>

\* Python's None.  A field that may hold None or an integer holds None or
\* Some(v): None equals no integer, 0 included.
None == <<>>

Some(v) == <<v>>

ValueOf(x) == x[1]

Min(a, b) == IF a <= b THEN a ELSE b

Max(a, b) == IF a >= b THEN a ELSE b

(***************************************************************************)
(* Part 1: UltraReliableSession._request                                   *)
(***************************************************************************)

\* Bounds of the request model.
MaxRecoveryAttempts == 3

MaxConsecutiveFailures == 2

MaxCalls == 2

\* The statuses _request treats as permanent (line 256).
PermanentStatuses == {"404", "403", "410"}

\* What one self.session.request(...) can give: a response with a status, or
\* an exception raised by requests (timeout, connection error, RetryError).
\* Statuses are written as strings; "500" stands for every status that is neither 200 nor permanent.
ResponseOutcomes == {"200", "404", "403", "410", "500", "exception"}

\* The behaviour of a URL: "flaky" answers anything, the others always the same.
UrlKinds == {"ok", "gone404", "gone403", "gone410", "flaky"}

OutcomesOf(kind) ==
    CASE kind = "ok" -> {"200"}
      [] kind = "gone404" -> {"404"}
      [] kind = "gone403" -> {"403"}
      [] kind = "gone410" -> {"410"}
      [] OTHER -> {"200", "500", "exception"}

IdleReq ==
    [pc |-> "idle", kind |-> "ok", recovery_attempt |-> 0, attempts |-> 0,
     sleeps |-> 0, loop_resets |-> 0, first |-> "none", last |-> "none"]

InitStats ==
    [total_requests |-> 0, successful_requests |-> 0, failed_requests |-> 0,
     retries_used |-> 0, recoveries_performed |-> 0, consecutive_failures |-> 0]

record_success(s) ==
    [s EXCEPT !.total_requests = @ + 1, !.successful_requests = @ + 1,
              !.consecutive_failures = 0]

record_failure(s) ==
    [s EXCEPT !.total_requests = @ + 1, !.failed_requests = @ + 1,
              !.consecutive_failures = @ + 1]

record_recovery(s) ==
    [s EXCEPT !.recoveries_performed = @ + 1, !.consecutive_failures = 0]

\* is_healthy: stale is "more than 300 s since the last success".
is_healthy(s, cfg, stale) ==
    /\ s.consecutive_failures < cfg.max_consecutive_failures
    /\ ~stale

\* The except-branch of the retry loop (lines 266-282) after a failed attempt:
\* what becomes of the call and of the session.
AfterFailure(r, outcome) ==
    LET again == r.recovery_attempt < reliability.recovery_attempts
        reset == again /\ r.recovery_attempt = reliability.recovery_attempts - 1
    IN  [r EXCEPT !.pc = IF again THEN "attempt" ELSE "raised",
                  !.recovery_attempt = IF again THEN @ + 1 ELSE @,
                  !.attempts = @ + 1,
                  !.sleeps = IF again THEN @ + 1 ELSE @,
                  !.loop_resets = IF reset THEN @ + 1 ELSE @,
                  !.first = IF r.attempts = 0 THEN outcome ELSE @,
                  !.last = outcome]

\* _request up to its first self.session.request: _health_check (lines 203-210),
\* then the loop is entered with recovery_attempt = 0.
RequestStart(kind, elapsed, stale) ==
    /\ req.pc = "idle"
    /\ calls < MaxCalls
    /\ calls' = calls + 1
    /\ LET unhealthy == elapsed /\ ~is_healthy(stats, reliability, stale)
       IN  /\ session' = IF unhealthy THEN session + 1 ELSE session
           /\ stats' = IF unhealthy THEN record_recovery(stats) ELSE stats
    /\ req' = [IdleReq EXCEPT !.pc = "attempt", !.kind = kind]
    /\ UNCHANGED <<reliability, notReqVars>>

\* One pass of the loop body with a response of status 200 (lines 250-255).
AttemptSuccess ==
    /\ req.pc = "attempt"
    /\ "200" \in OutcomesOf(req.kind)
    /\ stats' = record_success(stats)
    /\ req' = [req EXCEPT !.pc = "returned", !.attempts = @ + 1,
                          !.first = IF req.attempts = 0 THEN "200" ELSE @,
                          !.last = "200"]
    /\ UNCHANGED <<reliability, session, calls, notReqVars>>

\* One pass with a response whose status is not 200 (lines 256-264): the
\* failure is recorded, HTTPError is raised inside the try and caught by the
\* except of line 266, which records the failure again and goes on as for any
\* other exception.
AttemptStatusError(status) ==
    /\ req.pc = "attempt"
    /\ status \in OutcomesOf(req.kind) \ {"200", "exception"}
    /\ LET r == AfterFailure(req, status)
       IN  /\ req' = r
           /\ stats' = LET s == record_failure(record_failure(stats))
                       IN  IF r.loop_resets > req.loop_resets
                           THEN record_recovery(s) ELSE s
           /\ session' = IF r.loop_resets > req.loop_resets
                         THEN session + 1 ELSE session
    /\ UNCHANGED <<reliability, calls, notReqVars>>

\* One pass in which self.session.request itself raises (lines 266-282).
AttemptException ==
    /\ req.pc = "attempt"
    /\ "exception" \in OutcomesOf(req.kind)
    /\ LET r == AfterFailure(req, "exception")
       IN  /\ req' = r
           /\ stats' = LET s == record_failure(stats)
                       IN  IF r.loop_resets > req.loop_resets
                           THEN record_recovery(s) ELSE s
           /\ session' = IF r.loop_resets > req.loop_resets
                         THEN session + 1 ELSE session
    /\ UNCHANGED <<reliability, calls, notReqVars>>

\* The caller takes the response or the raised error; the session is free again.
RequestEnd ==
    /\ req.pc \in {"returned", "raised"}
    /\ req' = [req EXCEPT !.pc = "idle"]
    /\ UNCHANGED <<reliability, stats, session, calls, notReqVars>>

\* The request part at rest, for the specifications that do not drive it.
IdleRequestPart ==
    /\ reliability = [recovery_attempts |-> 0, max_consecutive_failures |-> 1]
    /\ stats = InitStats
    /\ session = 1
    /\ req = IdleReq
    /\ calls = 0

\* The scrape part at rest.
IdleScrapePart ==
    /\ perf = [use_async |-> FALSE, max_workers |-> 1]
    /\ book = [has_original_pagination |-> FALSE, page_count_internal |-> 1]
    /\ max_pages = None
    /\ source = <<>>
    /\ fetched = {}
    /\ pages = <<>>
    /\ spc = "idle"

\* The structure discovery at rest.
IdleVolumesPart ==
    /\ reader = [dropdown |-> {}, dropdown_tag |-> "a", page_links |-> {},
                 next_links |-> {}]
    /\ volumes = <<>>
    /\ page_count = None
    /\ vpc = "idle"

\* No checkpoint file on disk.
NoCheckpoint ==
    [exists |-> FALSE, keys |-> {}, book_data |-> {}, loaded_pages |-> {},
     failed_pages |-> {}, total_pages |-> 0]

\* No extract_book_ultra_reliable call in progress.
IdleRun ==
    [pc |-> "idle", resumed |-> FALSE, book_data |-> {}, loaded_pages |-> {},
     failed_pages |-> {}, ck_loaded |-> {}, actual_max |-> 0,
     pages_to_load |-> <<>>, batch_start |-> 0, pages_data |-> <<>>,
     checkpointed |-> 0]

NoReturn ==
    [kind |-> "none", resumed |-> FALSE, keys |-> {}, pages |-> <<>>,
     actual_max |-> 0, requested |-> {}, ck_loaded |-> {}]

\* The extractor at rest.
IdleUltraPart ==
    /\ ultra = [batch_size |-> 1, checkpoint_interval |-> 1, auto_resume |-> TRUE,
                min_content_length |-> 1]
    /\ u_max_pages = None
    /\ bad_pages = {}
    /\ checkpoint_file = NoCheckpoint
    /\ backup_files = <<>>
    /\ cache = {}
    /\ run = IdleRun
    /\ ret = NoReturn
    /\ runs = 0

\* An OptimizedCache nobody uses.
IdleCachePart ==
    /\ global_cache = [cache |-> <<>>, access_order |-> <<>>, max_size |-> 0]
    /\ touch = <<>>
    /\ clock = 0
    /\ last_call = <<>>
    /\ workers = <<>>

\* A SmartCache nobody uses.
IdleSmartPart ==
    /\ smart_cache = [memory_cache |-> {}, access_count |-> <<>>, persistent |-> {},
                      cache_size_limit |-> 0, persistent_cache |-> FALSE, old |-> {}]
    /\ smart_touch = <<>>
    /\ smart_clock = 0
    /\ smart_last = <<>>

\* A shared session no thread uses.
IdleSessPart ==
    /\ shared_config = [recovery_attempts |-> 0, max_consecutive_failures |-> 1]
    /\ shared_stats = InitStats
    /\ shared_session = [current |-> 1, closed |-> {}]
    /\ thread_req = <<>>
    /\ thread_calls = 0

\* An UltraReliableScraper nobody calls.
IdleRetryPart ==
    /\ retry_config = [max_retries |-> 0, verify_extraction |-> TRUE]
    /\ retry_call = <<>>

\* A BackupManager nobody calls.
IdleBackupPart ==
    /\ backup_config = [enable_backup |-> TRUE, max_backup_files |-> 1]
    /\ backup_dir = <<>>
    /\ backup_clock = [second |-> 0, calls |-> 0]
    /\ backup_before = [book_id |-> <<>>, dir |-> <<>>]
    /\ backup_restored = [book_id |-> <<>>, data |-> [book_id |-> <<>>, serial |-> 0]]

\* A session with its adapter that nobody uses.
IdleTransportPart ==
    /\ http_config = [max_retries |-> 0, recovery_attempts |-> 0,
                      max_consecutive_failures |-> 1, allow_redirects |-> TRUE]
    /\ http_stats = InitStats
    /\ http_session = 1
    /\ http_call = <<>>
    /\ http_calls = 0

\* A ReliabilityMonitor nobody calls.
IdleMonitorPart ==
    /\ mon_config = [max_consecutive_failures |-> 1]
    /\ mon_stats = <<>>
    /\ mon_history = <<>>
    /\ mon_health = <<>>

\* An AsyncPageExtractor nobody calls.
IdlePoolPart ==
    /\ pool_config = [retries |-> 1]
    /\ pool_range = <<1, 0>>
    /\ pool_tasks = <<>>
    /\ pool_results = <<>>

\* No safe_request call.
IdleSafePart ==
    /\ safe_args = [retries |-> 1, use_cache |-> FALSE, cached |-> FALSE]
    /\ safe_call = <<>>

\* No MultiprocessExtractor.
IdleChunkPart ==
    /\ chunk_config = [process_chunk_size |-> 1, max_processes |-> 1]
    /\ chunk_total = None
    /\ page_chunks = <<>>

InitRequest ==
    /\ reliability \in [recovery_attempts : 0..MaxRecoveryAttempts,
                        max_consecutive_failures : 1..MaxConsecutiveFailures]
    /\ stats = InitStats
    /\ session = 1
    /\ req = IdleReq
    /\ calls = 0
    /\ IdleScrapePart
    /\ IdleVolumesPart
    /\ IdleUltraPart
    /\ IdleCachePart
    /\ IdleSmartPart
    /\ IdleSessPart
    /\ IdleRetryPart
    /\ IdleBackupPart
    /\ IdleTransportPart
    /\ IdleMonitorPart
    /\ IdlePoolPart
    /\ IdleSafePart
    /\ IdleChunkPart

NextRequest ==
    \/ \E kind \in UrlKinds, elapsed \in BOOLEAN, stale \in BOOLEAN :
          RequestStart(kind, elapsed, stale)
    \/ AttemptSuccess
    \/ \E status \in ResponseOutcomes : AttemptStatusError(status)
    \/ AttemptException
    \/ RequestEnd

SpecRequest == InitRequest /\ [][NextRequest]_vars

\* C1: for a URL answering 404, 403 or 410, _request makes exactly one HTTP
\* attempt and raises at once: no sleep, no further attempt, no session reset.
C1_PermanentNotRetried ==
    (req.pc \in {"returned", "raised"} /\ req.first \in PermanentStatuses)
        => (req.pc = "raised" /\ req.attempts = 1 /\ req.sleeps = 0
            /\ req.loop_resets = 0)

(***************************************************************************)
(* Part 2: the page extraction of scrape_enhanced_book                     *)
(***************************************************************************)

\* Bounds of the scrape model.
MaxPageCount == 3

MaxPrinted == 2

MaxWorkers == 2

\* What a reading page of the site gives: "ok" is a page with text, "empty" a
\* page whose extracted text is empty, "fail" a request that ends in an error.
\* printed is the page number in <title> (None: the title has none).
SourcePages ==
    [status : {"ok"}, printed : {None} \cup {Some(v) : v \in 0..MaxPrinted}]
        \cup [status : {"empty", "fail"}, printed : {None}]

\* actual_max of extract_all_pages_enhanced (line 2110): `if max_pages` is
\* false for None and for 0.
actual_max(total_pages, mp) ==
    IF mp /= None /\ ValueOf(mp) /= 0 THEN Min(total_pages, ValueOf(mp)) ELSE total_pages

\* The PageContent built by extract_enhanced_page_content (lines 1764-1795)
\* for reading page n.
extract_enhanced_page_content(n, has_original_pagination) ==
    LET printed_page_number ==
            IF has_original_pagination THEN source[n].printed ELSE None
        printed_missing ==
            has_original_pagination /\ printed_page_number = None
    IN  [page_number |-> IF has_original_pagination /\ printed_page_number /= None
                         THEN ValueOf(printed_page_number) ELSE n,
         original_page_number |-> printed_page_number,
         page_index_internal |-> Some(n),
         printed_missing |-> printed_missing,
         internal_index |-> Some(n)]

\* The PageContent built by extract_single_page_async (lines 1980-1985): only
\* page_number (the requested index), content, html_content and word_count are
\* given; the other fields keep the dataclass defaults (lines 708-711).
extract_single_page_async(n) ==
    [page_number |-> n,
     original_page_number |-> None,
     page_index_internal |-> None,
     printed_missing |-> FALSE,
     internal_index |-> None]

\* list.sort(key=...) is a stable merge sort: in the merge of two sorted runs
\* an element of the left run goes before the elements of the right run whose
\* key is not smaller.
MergeByPageNumber(l, r) ==
    LET pos_l == [i \in 1..Len(l) |->
                     i + Cardinality({j \in 1..Len(r) : r[j].page_number < l[i].page_number})]
        pos_r == [j \in 1..Len(r) |->
                     j + Cardinality({i \in 1..Len(l) : l[i].page_number <= r[j].page_number})]
    IN  IF l = <<>> \/ r = <<>> THEN l \o r
        ELSE IF l[Len(l)].page_number <= r[1].page_number THEN l \o r
        ELSE [k \in 1..(Len(l) + Len(r)) |->
                 IF \E i \in 1..Len(l) : pos_l[i] = k
                 THEN l[CHOOSE i \in 1..Len(l) : pos_l[i] = k]
                 ELSE r[CHOOSE j \in 1..Len(r) : pos_r[j] = k]]

RECURSIVE SortByPageNumber(_)
SortByPageNumber(s) ==
    IF Len(s) <= 1 THEN s
    ELSE LET half == Len(s) \div 2
         IN  MergeByPageNumber(SortByPageNumber(SubSeq(s, 1, half)),
                               SortByPageNumber(SubSeq(s, half + 1, Len(s))))

\* pages.sort(key=lambda p: p.page_number) of line 2137.
SortPages(s) == SortByPageNumber(s)

\* The pages to extract: range(1, total_pages + 1) of the method called.
PagesToExtract == 1..actual_max(book.page_count_internal, max_pages)

\* Sequential branch of extract_pages_traditional_method (lines 2205-2214):
\* the next page is extracted; a failed or empty page is left out.
ExtractSequential(n) ==
    /\ spc = "extracting"
    /\ ~perf.use_async
    /\ perf.max_workers = 1
    /\ n \in PagesToExtract \ fetched
    /\ \A m \in PagesToExtract \ fetched : n <= m
    /\ fetched' = fetched \cup {n}
    /\ pages' = IF source[n].status = "ok"
                THEN Append(pages, extract_enhanced_page_content(
                                       n, book.has_original_pagination))
                ELSE pages
    /\ UNCHANGED <<perf, book, max_pages, source, spc, notScrapeVars>>

\* Parallel branch (lines 2215-2238): every page is submitted, then
\* as_completed is entered.  It yields the futures already finished at that
\* moment in the iteration order of a set and the others as they complete, so
\* the results are appended in any order of the pages, whatever max_workers.
ExtractParallel(n) ==
    /\ spc = "extracting"
    /\ ~perf.use_async
    /\ perf.max_workers > 1
    /\ n \in PagesToExtract \ fetched
    /\ fetched' = fetched \cup {n}
    /\ pages' = IF source[n].status = "ok"
                THEN Append(pages, extract_enhanced_page_content(
                                       n, book.has_original_pagination))
                ELSE pages
    /\ UNCHANGED <<perf, book, max_pages, source, spc, notScrapeVars>>

\* One task of extract_pages_batch_async (lines 1966-2005) runs to its end; the
\* tasks of a batch complete in any order.
ExtractAsyncTask(n) ==
    /\ spc = "extracting"
    /\ perf.use_async
    /\ n \in PagesToExtract \ fetched
    /\ fetched' = fetched \cup {n}
    /\ UNCHANGED <<perf, book, max_pages, source, pages, spc, notScrapeVars>>

\* asyncio.gather and the filter of lines 2011-2021: the valid results in task
\* order.
RECURSIVE GatherAsync(_, _)
GatherAsync(n, last) ==
    IF n > last THEN <<>>
    ELSE (IF source[n].status = "ok" THEN <<extract_single_page_async(n)>> ELSE <<>>)
         \o GatherAsync(n + 1, last)

AsyncGather ==
    /\ spc = "extracting"
    /\ perf.use_async
    /\ fetched = PagesToExtract
    /\ pages' = GatherAsync(1, actual_max(book.page_count_internal, max_pages))
    /\ spc' = "collected"
    /\ UNCHANGED <<perf, book, max_pages, source, fetched, notScrapeVars>>

\* extract_pages_traditional_method returns when every page is done.
ThreadsJoined ==
    /\ spc = "extracting"
    /\ ~perf.use_async
    /\ fetched = PagesToExtract
    /\ spc' = "collected"
    /\ UNCHANGED <<perf, book, max_pages, source, fetched, pages, notScrapeVars>>

\* The end of extract_all_pages_enhanced (lines 2136-2144) and of
\* scrape_enhanced_book (lines 1855-1872): the sorted list becomes book.pages.
ReturnBook ==
    /\ spc = "collected"
    /\ pages' = SortPages(pages)
    /\ spc' = "returned"
    /\ UNCHANGED <<perf, book, max_pages, source, fetched, notScrapeVars>>

InitScrape ==
    /\ perf \in [use_async : BOOLEAN, max_workers : 1..MaxWorkers]
    /\ book \in [has_original_pagination : BOOLEAN,
                 page_count_internal : 1..MaxPageCount]
    /\ max_pages \in {None} \cup {Some(v) : v \in 1..MaxPageCount}
    /\ source \in [1..book.page_count_internal -> SourcePages]
    /\ fetched = {}
    /\ pages = <<>>
    /\ spc = "extracting"
    /\ IdleRequestPart
    /\ IdleVolumesPart
    /\ IdleUltraPart
    /\ IdleCachePart
    /\ IdleSmartPart
    /\ IdleSessPart
    /\ IdleRetryPart
    /\ IdleBackupPart
    /\ IdleTransportPart
    /\ IdleMonitorPart
    /\ IdlePoolPart
    /\ IdleSafePart
    /\ IdleChunkPart

NextScrape ==
    \/ \E n \in 1..MaxPageCount : ExtractSequential(n)
    \/ \E n \in 1..MaxPageCount : ExtractParallel(n)
    \/ \E n \in 1..MaxPageCount : ExtractAsyncTask(n)
    \/ AsyncGather
    \/ ThreadsJoined
    \/ ReturnBook

SpecScrape == InitScrape /\ [][NextScrape]_vars

\* C2: a Book returned with no max_pages limit has len(pages) equal to
\* page_count_internal and pages[i].internal_index = i+1 at every position.
C2_PagesComplete ==
    (spc = "returned" /\ max_pages = None)
        => /\ Len(pages) = book.page_count_internal
           /\ \A i \in 1..Len(pages) : pages[i].internal_index = Some(i)

\* C3: the list returned by extract_all_pages_enhanced is in strictly
\* ascending order of internal_index.
C3_SortedByInternalIndex ==
    spc = "returned"
        => \A i, j \in 1..Len(pages) :
               i < j => /\ pages[i].internal_index /= None
                        /\ pages[j].internal_index /= None
                        /\ ValueOf(pages[i].internal_index)
                               < ValueOf(pages[j].internal_index)

\* C9: for every page of a returned book, page_number = internal_index if and
\* only if has_original_pagination is false or printed_missing is true.
C9_PageNumberIffNoPrinted ==
    spc = "returned"
        => \A i \in 1..Len(pages) :
               (Some(pages[i].page_number) = pages[i].internal_index)
                   <=> (~book.has_original_pagination \/ pages[i].printed_missing)

\* What the sequential branch collects for the pages n..last (lines
\* 2205-2214), the list a run with max_workers = 1 builds.
RECURSIVE SequentialPages(_, _)
SequentialPages(n, last) ==
    IF n > last THEN <<>>
    ELSE (IF source[n].status = "ok"
          THEN <<extract_enhanced_page_content(n, book.has_original_pagination)>>
          ELSE <<>>) \o SequentialPages(n + 1, last)

\* C15: for a fixed source the thread pool with max_workers > 1 returns, under
\* every interleaving of the workers, what max_workers = 1 returns: the same
\* number of pages and, position by position, the same page.
C15_ParallelEqualsSequential ==
    (spc = "returned" /\ ~perf.use_async)
        => pages = SortPages(SequentialPages(
                       1, actual_max(book.page_count_internal, max_pages)))

(***************************************************************************)
(* Part 3: volumes and page count of scrape_enhanced_book                  *)
(***************************************************************************)

\* Bounds of the structure model.
MaxVolumeNumber == 2

MaxLinkTarget == 3

MaxDropdownLinks == 2

\* A dropdown link that passed the filter of lines 1519-1521: vol is the first
\* integer of its text (None: the text has no digit, the link came in by its
\* "#p1"), start the N of its href /book/{id}/N.
DropdownLinks ==
    [vol : {None} \cup {Some(v) : v \in 1..MaxVolumeNumber}, start : 1..MaxLinkTarget]

SetMax(S) == CHOOSE x \in S : \A y \in S : y <= x

SetMin(S) == CHOOSE x \in S : \A y \in S : x <= y

\* volume_data and unique_volumes of lines 1533-1566: links without a number
\* are skipped, and each volume number keeps its smallest start.
unique_volumes(dropdown) ==
    LET nums == {ValueOf(l.vol) : l \in {k \in dropdown : k.vol /= None}}
    IN  [n \in nums |-> SetMin({l.start : l \in {k \in dropdown : k.vol = Some(n)}})]

\* The N of every <a href> of the page that matches /book/{id}/N (lines
\* 1576-1583).  The dropdown links all come from one selector of lines
\* 1501-1507: they are among these anchors when that selector takes <a>
\* elements, and are not when it takes the <option> elements of a <select>.
AllPageLinks(r) ==
    r.page_links \cup (IF r.dropdown_tag = "a" THEN {l.start : l \in r.dropdown} ELSE {})

max_internal_page(r) == SetMax({1} \cup AllPageLinks(r))

\* Lines 1585-1600, over sorted(unique_volumes.items()).
RECURSIVE BuildVolumes(_, _, _)
BuildVolumes(uv, nums, last_end) ==
    IF nums = {} THEN <<>>
    ELSE LET n == SetMin(nums)
             rest == nums \ {n}
             end_page == IF rest /= {} THEN uv[SetMin(rest)] - 1 ELSE last_end
         IN  <<[number |-> n, page_start |-> uv[n], page_end |-> Some(end_page)]>>
             \o BuildVolumes(uv, rest, last_end)

\* extract_volumes_from_dropdown: with no link found (line 1527) or none usable
\* (line 1571) one default volume with page_end=None is returned.
extract_volumes_from_dropdown(r) ==
    LET uv == unique_volumes(r.dropdown)
    IN  IF DOMAIN uv = {}
        THEN <<[number |-> 1, page_start |-> 1, page_end |-> None]>>
        ELSE BuildVolumes(uv, DOMAIN uv, max_internal_page(r))

\* calculate_page_counts_from_reader, lines 1357-1382: the targets of the
\* ">>"/next links if they give more than 1, else of every link of the page.
calculate_page_counts_from_reader(r) ==
    LET by_next == SetMax({1} \cup r.next_links)
    IN  IF by_next = 1 THEN SetMax({1} \cup AllPageLinks(r)) ELSE by_next

\* Step 4 of scrape_enhanced_book (lines 1831-1833).
ExtractVolumes ==
    /\ vpc = "reading"
    /\ volumes' = extract_volumes_from_dropdown(reader)
    /\ vpc' = "volumes"
    /\ UNCHANGED <<reader, page_count, notVolVars>>

\* Step 5 of scrape_enhanced_book (lines 1835-1841).
CalculatePageCounts ==
    /\ vpc = "volumes"
    /\ page_count' = Some(calculate_page_counts_from_reader(reader))
    /\ vpc' = "done"
    /\ UNCHANGED <<reader, volumes, notVolVars>>

InitVolumes ==
    /\ reader \in [dropdown : {d \in SUBSET DropdownLinks :
                                   Cardinality(d) <= MaxDropdownLinks},
                   dropdown_tag : {"a", "option"},
                   page_links : SUBSET (1..MaxLinkTarget),
                   next_links : SUBSET (1..MaxLinkTarget)]
    /\ reader.next_links \subseteq reader.page_links
    /\ volumes = <<>>
    /\ page_count = None
    /\ vpc = "reading"
    /\ IdleRequestPart
    /\ IdleScrapePart
    /\ IdleUltraPart
    /\ IdleCachePart
    /\ IdleSmartPart
    /\ IdleSessPart
    /\ IdleRetryPart
    /\ IdleBackupPart
    /\ IdleTransportPart
    /\ IdleMonitorPart
    /\ IdlePoolPart
    /\ IdleSafePart
    /\ IdleChunkPart

NextVolumes ==
    \/ ExtractVolumes
    \/ CalculatePageCounts

SpecVolumes == InitVolumes /\ [][NextVolumes]_vars

\* C10: the volumes of the returned book partition 1..page_count_internal: the
\* first starts at 1, each has page_start <= page_end, each ends right before
\* the next starts, the last ends at page_count_internal; with no usable
\* dropdown link the one volume is {1, 1, page_count_internal}.
C10_VolumesPartition ==
    vpc = "done"
        => /\ Len(volumes) >= 1
           /\ volumes[1].page_start = 1
           /\ \A i \in 1..Len(volumes) :
                  /\ volumes[i].page_end /= None
                  /\ volumes[i].page_start <= ValueOf(volumes[i].page_end)
           /\ \A i \in 1..(Len(volumes) - 1) :
                  ValueOf(volumes[i].page_end) + 1 = volumes[i + 1].page_start
           /\ volumes[Len(volumes)].page_end = page_count
           /\ ({l \in reader.dropdown : l.vol /= None} = {}
                  => volumes = <<[number |-> 1, page_start |-> 1,
                                  page_end |-> page_count]>>)

(***************************************************************************)
(* Part 4: UltraReliableExtractor.extract_book_ultra_reliable, with the    *)
(* ProgressiveLoader's checkpoint file and the BackupManager's files.      *)
(* Calls follow one another in the same working directory; a call can be   *)
(* killed between two batches, which loses the call's memory and keeps the *)
(* files.                                                                  *)
(***************************************************************************)

\* Bounds of the extractor model.
MaxPagesArg == 3

MaxBadPage == 3

MaxBatchSize == 2

MaxCheckpointInterval == 2

MaxRuns == 2

\* 'page_count_internal': 100 of _extract_book_info_reliable.
BookPageCountInternal == 100

\* batch_size: int = 20
DefaultBatchSize == 20

\* checkpoint_interval: int = 25
DefaultCheckpointInterval == 25

\* min_content_length: int = 50
DefaultMinContentLength == 50

\* A min_content_length below the length of every page's content.
LowMinContentLength == 30

\* The number of characters of the HTML the site answers for a page.
PageHtmlLength == 237

\* quality_threshold: float = 0.95, in percent
QualityThresholdPercent == 95

\* max_backup_files=10 of create_ultra_reliable_config, the ReliabilityConfig
\* of the extractor's default configuration.
max_backup_files == 10

\* The configurations tried: batch_size, checkpoint_interval, auto_resume and
\* min_content_length.
UltraConfigs ==
    [batch_size : (1..MaxBatchSize) \cup {DefaultBatchSize},
     checkpoint_interval : (1..MaxCheckpointInterval) \cup {DefaultCheckpointInterval},
     auto_resume : BOOLEAN,
     min_content_length : {LowMinContentLength, DefaultMinContentLength}]

\* The keys of the dict built by _extract_book_info_reliable (lines 465-472).
FullBookKeys ==
    {"shamela_id", "title", "authors", "page_count_internal",
     "extraction_date", "source_url"}

\* The keys of the dict handed to save_checkpoint as book_data (line 514).
CheckpointBookKeys == {"shamela_id"}

\* The keys of the checkpoint file's top-level dict (lines 306-312).
CheckpointFileKeys ==
    {"book_data", "loaded_pages", "failed_pages", "timestamp", "total_pages"}

\* validate_book_data: title, shamela_id and authors are present.
validate_book_data(book_data) == {"title", "shamela_id", "authors"} \subseteq book_data

\* total_pages = book_data.get('page_count_internal', 1) (line 396).
total_pages_of(book_data) ==
    IF "page_count_internal" \in book_data THEN BookPageCountInternal ELSE 1

\* actual_max = min(total_pages, max_pages) if max_pages else total_pages.
ultra_actual_max(total_pages, mp) ==
    IF mp /= None /\ ValueOf(mp) /= 0
    THEN Min(total_pages, ValueOf(mp)) ELSE total_pages

\* pages_to_load of line 486: the i of lo..hi with should_load_page(i).
pages_to_load(lo, hi, loaded) ==
    IF lo > hi THEN <<>>
    ELSE SelectSeq([i \in 1..(hi - lo + 1) |-> lo + i - 1], LAMBDA p : p \notin loaded)

\* The number of decimal digits of n.
RECURSIVE DecimalDigits(_)
DecimalDigits(n) == IF n < 10 THEN 1 ELSE 1 + DecimalDigits(n \div 10)

\* len(_parse_page_content(html)) (lines 603-607): the text is fixed but for
\* the decimal form of len(html); it has 31 other characters.
parse_page_content(html_length) == 31 + DecimalDigits(html_length)

\* The Arabic letters of that text.
ParsedArabicChars == 20

\* DataValidator.validate_page_content (lines 237-257) on a content of that
\* many characters: not empty, not shorter than min_content_length, and, with
\* check_content_quality at its default True, accepted when at least 30% of
\* it is Arabic, or more than 10% otherwise.
validate_page_content(content_length, config) ==
    /\ content_length > 0
    /\ content_length >= config.min_content_length
    /\ IF ParsedArabicChars * 10 < 3 * content_length
       THEN ParsedArabicChars * 10 > content_length
       ELSE TRUE

\* _extract_single_page_reliable(page_num) gives page_data (lines 563-601):
\* the page loads with an HTML that validates and its parsed content
\* validates.  The cache is not consulted here: a page is stored only after
\* it validated, and a page the site once gave it keeps giving, so a hit
\* gives what the fetch gives.
extract_single_page_reliable(page_num) ==
    /\ page_num \notin bad_pages
    /\ validate_page_content(parse_page_content(PageHtmlLength), ultra)

\* The page_data of the pages of a batch that _extract_single_page_reliable
\* gives: None for a page that fails to load or to validate.
RECURSIVE batch_page_data(_)
batch_page_data(batch) ==
    IF batch = <<>> THEN <<>>
    ELSE (IF ~extract_single_page_reliable(Head(batch)) THEN <<>>
          ELSE <<[page_number |-> Head(batch)]>>) \o batch_page_data(Tail(batch))

SeqToSet(s) == {s[i] : i \in 1..Len(s)}

\* The last k elements of a sequence.
LastOf(s, k) == IF Len(s) <= k THEN s ELSE SubSeq(s, Len(s) - k + 1, Len(s))

\* BackupManager.create_backup: the file name holds page_count and the second
\* of the clock, so a file of the same page_count written in the same second
\* is overwritten; then the newest max_backup_files files are kept.  ticked
\* says whether the clock's second changed since the last write.
create_backup(files, data, n, ticked) ==
    LET aged == [i \in 1..Len(files) |->
                    [files[i] EXCEPT !.this_second = files[i].this_second /\ ~ticked]]
        kept == SelectSeq(aged, LAMBDA f : ~(f.this_second /\ f.page_count = n))
        all  == Append(kept, [page_count |-> n, this_second |-> TRUE,
                              keys |-> data.keys, pages |-> data.pages])
    IN  LastOf(all, max_backup_files)

\* What restore_from_backup gives when there is no file: None, written as a
\* document without keys, which `if backup_data` takes for false as well.
NoBackup == [page_count |-> 0, this_second |-> FALSE, keys |-> {}, pages |-> <<>>]

\* BackupManager.restore_from_backup: the newest file's data, or None.
restore_from_backup(files) ==
    IF files = <<>> THEN NoBackup ELSE files[Len(files)]

\* ProgressiveLoader.save_checkpoint(book_data, pages_data).
save_checkpoint(book_data, loaded, failed, n_pages) ==
    [exists |-> TRUE, keys |-> CheckpointFileKeys, book_data |-> book_data,
     loaded_pages |-> loaded, failed_pages |-> failed, total_pages |-> n_pages]


\* The state of a call that reaches _extract_pages_ultra_reliable with the
\* given book_data and the loader's sets (lines 396-397, 483-486).
BeginPages(book_data, loaded, failed, resumed) ==
    LET am == ultra_actual_max(total_pages_of(book_data), u_max_pages)
    IN  [pc |-> "batches", resumed |-> resumed, book_data |-> book_data,
         loaded_pages |-> loaded, failed_pages |-> failed, ck_loaded |-> loaded,
         actual_max |-> am, pages_to_load |-> pages_to_load(1, am, loaded),
         batch_start |-> 0, pages_data |-> <<>>, checkpointed |-> 0]

\* load_checkpoint returns a non-empty book_data (lines 283-294, 382, 391).
CheckpointLoaded ==
    /\ ultra.auto_resume
    /\ checkpoint_file.exists
    /\ checkpoint_file.book_data /= {}

\* A call without a checkpoint: the book's data comes from the cache (expired:
\* the entry is older than cache_duration) or from the site, is validated and
\* backed up with page_count 0 (lines 382-390), and the batches begin.
StartFresh(expired, ticked) ==
    /\ run.pc = "idle"
    /\ runs < MaxRuns
    /\ ~CheckpointLoaded
    /\ validate_book_data(FullBookKeys)
    /\ runs' = runs + 1
    /\ cache' = cache \cup {0}
    /\ backup_files' = create_backup(backup_files,
                                     [keys |-> FullBookKeys, pages |-> <<>>], 0, ticked)
    /\ run' = BeginPages(FullBookKeys, {}, {}, FALSE)
    /\ ret' = NoReturn
    /\ UNCHANGED <<ultra, u_max_pages, bad_pages, checkpoint_file, notUltraVars>>

\* A call without a checkpoint whose book page is not in the cache and cannot
\* be fetched or does not validate: the exception reaches the handler of lines
\* 433-442, which returns the newest backup if there is one and raises if not.
StartFreshFails(expired) ==
    /\ run.pc = "idle"
    /\ runs < MaxRuns
    /\ ~CheckpointLoaded
    /\ ~(0 \in cache /\ ~expired)
    /\ runs' = runs + 1
    /\ LET backup_data == restore_from_backup(backup_files)
       IN  ret' = IF backup_data.keys /= {}
                  THEN [NoReturn EXCEPT !.kind = "backup", !.keys = backup_data.keys,
                                        !.pages = backup_data.pages]
                  ELSE [NoReturn EXCEPT !.kind = "raised"]
    /\ UNCHANGED <<ultra, u_max_pages, bad_pages, checkpoint_file, backup_files,
                   cache, run, notUltraVars>>

\* A call that finds a checkpoint: book_data is the checkpoint's book_data and
\* the loader's sets are the checkpoint's (lines 288-294, 391-393).
StartResume ==
    /\ run.pc = "idle"
    /\ runs < MaxRuns
    /\ CheckpointLoaded
    /\ runs' = runs + 1
    /\ run' = BeginPages(checkpoint_file.book_data, checkpoint_file.loaded_pages,
                         checkpoint_file.failed_pages, TRUE)
    /\ ret' = NoReturn
    /\ UNCHANGED <<ultra, u_max_pages, bad_pages, checkpoint_file, backup_files,
                   cache, notUltraVars>>

\* A mark_page_loaded that leaves the page in failed_pages.
mark_page_loaded_keeps_failed(loader, page_num) ==
    [loader EXCEPT !.loaded_pages = @ \cup {page_num}]

\* ProgressiveLoader.mark_page_loaded (lines 332-335): the page is added to
\* loaded_pages and discarded from failed_pages.
mark_page_loaded(loader, page_num) ==
    [loaded_pages |-> loader.loaded_pages \cup {page_num},
     failed_pages |-> loader.failed_pages \ {page_num}]

\* ProgressiveLoader.mark_page_failed (lines 337-339).
mark_page_failed(loader, page_num) ==
    [loader EXCEPT !.failed_pages = @ \cup {page_num}]

\* The loop over batch_results (lines 502-510): a page with data is marked
\* loaded, a page without is marked failed.
RECURSIVE mark_batch_results(_, _)
mark_batch_results(loader, batch) ==
    IF batch = <<>> THEN loader
    ELSE mark_batch_results(IF ~extract_single_page_reliable(Head(batch))
                            THEN mark_page_failed(loader, Head(batch))
                            ELSE mark_page_loaded(loader, Head(batch)),
                            Tail(batch))

\* One iteration of the batch loop (lines 491-514): the batch's pages are
\* extracted, the successful ones appended to pages_data and marked loaded,
\* the others marked failed, and the checkpoint is saved when len(pages_data)
\* is a multiple of checkpoint_interval.  pages_data takes the batch's pages
\* in ascending order: only its length and its sorted form are used.
ProcessBatch ==
    /\ run.pc = "batches"
    /\ run.batch_start < Len(run.pages_to_load)
    /\ LET batch_end   == Min(run.batch_start + ultra.batch_size, Len(run.pages_to_load))
           batch_pages == SubSeq(run.pages_to_load, run.batch_start + 1, batch_end)
           got         == batch_page_data(batch_pages)
           pages_data  == run.pages_data \o got
           loader      == mark_batch_results([loaded_pages |-> run.loaded_pages,
                                              failed_pages |-> run.failed_pages],
                                             batch_pages)
           loaded      == loader.loaded_pages
           failed      == loader.failed_pages
       IN  /\ run' = [run EXCEPT !.pages_data = pages_data,
                                 !.loaded_pages = loaded,
                                 !.failed_pages = failed,
                                 !.batch_start = run.batch_start + ultra.batch_size,
                                 !.checkpointed =
                                     IF Len(pages_data) % ultra.checkpoint_interval = 0
                                     THEN Len(pages_data) ELSE @]
           /\ checkpoint_file' =
                  IF Len(pages_data) % ultra.checkpoint_interval = 0
                  THEN save_checkpoint(CheckpointBookKeys, loaded, failed, Len(pages_data))
                  ELSE checkpoint_file
    /\ UNCHANGED <<ultra, u_max_pages, bad_pages, backup_files, cache, ret, runs,
                   notUltraVars>>

\* A cleanup_checkpoint that leaves the file where it is.
cleanup_checkpoint_keeps_file(file) == file

\* ProgressiveLoader.cleanup_checkpoint (lines 320-326): the file is unlinked
\* if it exists.
cleanup_checkpoint(file) == IF file.exists THEN NoCheckpoint ELSE file

\* After the last batch (lines 407-431): the pages are sorted, merged into
\* final_data, a low success rate is only logged, final_data is backed up, the
\* checkpoint is removed and final_data is returned.
FinishRun(ticked) ==
    /\ run.pc = "batches"
    /\ run.batch_start >= Len(run.pages_to_load)
    /\ LET final_data == [keys |-> run.book_data \cup {"pages"},
                          pages |-> SortByPageNumber(run.pages_data)]
       IN  /\ backup_files' = create_backup(backup_files, final_data,
                                            Len(run.pages_data), ticked)
           /\ ret' = [kind |-> "doc", resumed |-> run.resumed,
                      keys |-> final_data.keys, pages |-> final_data.pages,
                      actual_max |-> run.actual_max,
                      requested |-> SeqToSet(run.pages_to_load),
                      ck_loaded |-> run.ck_loaded]
    /\ checkpoint_file' = cleanup_checkpoint(checkpoint_file)
    /\ run' = IdleRun
    /\ UNCHANGED <<ultra, u_max_pages, bad_pages, cache, runs, notUltraVars>>

\* Between two calls a page that could not be fetched becomes fetchable: what
\* _process_batch_ultra_reliable gets for a page is what the site and the
\* network give at that time.
PageRecovers(p) ==
    /\ run.pc = "idle"
    /\ runs < MaxRuns
    /\ p \in bad_pages
    /\ bad_pages' = bad_pages \ {p}
    /\ UNCHANGED <<ultra, u_max_pages, checkpoint_file, backup_files, cache, run,
                   ret, runs, notUltraVars>>

\* The process is killed between two batches: the files stay.
Interrupt ==
    /\ run.pc = "batches"
    /\ run' = IdleRun
    /\ ret' = [NoReturn EXCEPT !.kind = "killed"]
    /\ UNCHANGED <<ultra, u_max_pages, bad_pages, checkpoint_file, backup_files,
                   cache, runs, notUltraVars>>

InitUltra ==
    /\ ultra \in UltraConfigs
    /\ u_max_pages \in {None} \cup {Some(v) : v \in 1..MaxPagesArg}
    /\ bad_pages \in SUBSET (1..MaxBadPage)
    /\ checkpoint_file = NoCheckpoint
    /\ backup_files = <<>>
    /\ cache = {}
    /\ run = IdleRun
    /\ ret = NoReturn
    /\ runs = 0
    /\ IdleRequestPart
    /\ IdleScrapePart
    /\ IdleVolumesPart
    /\ IdleCachePart
    /\ IdleSmartPart
    /\ IdleSessPart
    /\ IdleRetryPart
    /\ IdleBackupPart
    /\ IdleTransportPart
    /\ IdleMonitorPart
    /\ IdlePoolPart
    /\ IdleSafePart
    /\ IdleChunkPart

NextUltra ==
    \/ \E expired \in BOOLEAN, ticked \in BOOLEAN : StartFresh(expired, ticked)
    \/ \E expired \in BOOLEAN : StartFreshFails(expired)
    \/ StartResume
    \/ ProcessBatch
    \/ \E ticked \in BOOLEAN : FinishRun(ticked)
    \/ Interrupt
    \/ \E p \in 1..MaxBadPage : PageRecovers(p)

SpecUltra == InitUltra /\ [][NextUltra]_vars


\* The pages an uninterrupted call returns for this site and max_pages.
UninterruptedPages ==
    batch_page_data(pages_to_load(1, ultra_actual_max(BookPageCountInternal, u_max_pages), {}))

\* C4: extract_book_ultra_reliable never returns a document as success when
\* the fraction of the requested pages that were extracted is below
\* quality_threshold: it raises instead.
C4_NoDocumentBelowQuality ==
    ret.kind = "doc"
        => Len(ret.pages) * 100 >= QualityThresholdPercent * ret.actual_max

\* C5: resume equivalence: a call that resumes from a checkpoint left by an
\* interrupted call returns the document (skeleton fields and full pages list)
\* that an uninterrupted call returns for the same configuration and site.
C5_ResumeEquivalence ==
    (ret.kind = "doc" /\ ret.resumed)
        => /\ ret.keys = FullBookKeys \cup {"pages"}
           /\ ret.pages = UninterruptedPages

\* C6: after resuming from a checkpoint, the page indices requested are
\* exactly 1..min(page_count_internal, max_pages) minus the checkpoint's
\* loaded_pages.
C6_ResumeFetchesTheRest ==
    (ret.kind = "doc" /\ ret.resumed)
        => ret.requested =
               (1..ultra_actual_max(BookPageCountInternal, u_max_pages)) \ ret.ck_loaded

\* C7: every checkpoint written by save_checkpoint holds the book skeleton
\* (with page_count_internal), the page records of the indices in
\* loaded_pages, failed_pages and a timestamp.
C7_CheckpointContents ==
    checkpoint_file.exists
        => /\ {"book_data", "loaded_pages", "failed_pages", "timestamp"}
                  \subseteq checkpoint_file.keys
           /\ "page_count_internal" \in checkpoint_file.book_data
           /\ "pages" \in checkpoint_file.keys

\* C8: on an unrecoverable error a restored backup is returned only if it is a
\* complete document (it holds every page of the book) and the returned value
\* carries a RecoveredFromBackup annotation; otherwise the error is raised.
C8_BackupReturnedOnlyIfComplete ==
    ret.kind = "backup"
        => /\ "pages" \in ret.keys
           /\ {p.page_number : p \in SeqToSet(ret.pages)} = 1..BookPageCountInternal
           /\ "recovered_from_backup" \in ret.keys

\* C18: when extract_book_ultra_reliable returns the extracted document, no
\* checkpoint file exists; when it ends in its error handler (it raises, or
\* hands back a restored backup), the checkpoint file is the one that was
\* there before.
C18_CheckpointGoneOnSuccess ==
    [][/\ ret'.kind = "doc" => ~checkpoint_file'.exists
       /\ ret'.kind \in {"backup", "raised"} => checkpoint_file' = checkpoint_file]_vars

\* A run resumed from a checkpoint has returned its document and the
\* checkpoint file is gone.
C18_Witness ==
    /\ ret.kind = "doc"
    /\ ret.resumed
    /\ ret.ck_loaded /= {}
    /\ ~checkpoint_file.exists

\* C24: between two batches of _extract_pages_ultra_reliable the number of
\* pages extracted since the last checkpoint of the run (run.checkpointed is
\* len(pages_data) at that save) is below checkpoint_interval: once it has
\* grown by checkpoint_interval a checkpoint was saved before the next batch.
C24_CheckpointEveryInterval ==
    run.pc = "batches"
        => Len(run.pages_data) - run.checkpointed < ultra.checkpoint_interval

\* C29: in every state of an extraction run, resumed runs included, the
\* loader's loaded_pages and failed_pages are disjoint, and so are the two
\* lists of every checkpoint the run writes or starts from.
C29_LoadedAndFailedDisjoint ==
    /\ run.loaded_pages \cap run.failed_pages = {}
    /\ checkpoint_file.exists
           => checkpoint_file.loaded_pages \cap checkpoint_file.failed_pages = {}

\* A resumed run has loaded a page that the checkpoint it started from, still
\* on disk, lists as failed.
C29_Witness ==
    /\ run.pc = "batches"
    /\ run.resumed
    /\ checkpoint_file.exists
    /\ run.loaded_pages \cap checkpoint_file.failed_pages /= {}
    /\ run.failed_pages /= {}

(***************************************************************************)
(* Part 5: OptimizedCache (global_cache), first called by one thread, then *)
(* by the page worker threads of extract_pages_traditional_method.         *)
(***************************************************************************)

\* Bounds of the cache model.
MaxCacheKey == 3

MaxCacheValue == 2

MaxCacheSize == 2

MaxCacheCalls == 4

CacheKeys == 1..MaxCacheKey

CacheValues == {Some(v) : v \in 1..MaxCacheValue}

\* self.cache as a function on the keys: NotCached for a key the dict lacks.
NotCached == None

EmptyCache == [k \in CacheKeys |-> NotCached]

\* The keys of the dict self.cache.
KeysIn(c) == {k \in DOMAIN c.cache : c.cache[k] /= NotCached}

\* list.remove(x): the first occurrence goes.
RECURSIVE RemoveFirst(_, _)
RemoveFirst(s, x) ==
    IF s = <<>> THEN <<>>
    ELSE IF Head(s) = x THEN Tail(s)
    ELSE <<Head(s)>> \o RemoveFirst(Tail(s), x)

\* A get that leaves the order alone: what OptimizedCache.get would be without
\* its lines 181-182.
cache_get_without_touch(c, key) ==
    [c |-> c,
     result |-> IF c.cache[key] /= NotCached THEN c.cache[key] ELSE None,
     raised |-> FALSE]

\* OptimizedCache.get(key) (lines 178-184) run by one thread alone: the cache
\* after the call, the value returned (None: the default) and whether
\* list.remove raised ValueError.
cache_get(c, key) ==
    IF c.cache[key] /= NotCached
    THEN IF key \in SeqToSet(c.access_order)
         THEN [c |-> [c EXCEPT !.access_order = Append(RemoveFirst(@, key), key)],
               result |-> c.cache[key], raised |-> FALSE]
         ELSE [c |-> c, result |-> None, raised |-> TRUE]
    ELSE [c |-> c, result |-> None, raised |-> FALSE]

\* OptimizedCache.set(key, value) (lines 186-199) run by one thread alone.
\* pop(0) on an empty list raises IndexError, del of a missing key KeyError.
cache_set(c, key, value) ==
    IF c.cache[key] /= NotCached
    THEN LET written == [c EXCEPT !.cache[key] = value]
         IN  IF key \in SeqToSet(c.access_order)
             THEN [c |-> [written EXCEPT
                             !.access_order = Append(RemoveFirst(@, key), key)],
                   raised |-> FALSE]
             ELSE [c |-> written, raised |-> TRUE]
    ELSE IF Cardinality(KeysIn(c)) >= c.max_size
    THEN IF c.access_order = <<>>
         THEN [c |-> c, raised |-> TRUE]
         ELSE LET oldest == Head(c.access_order)
                  popped == [c EXCEPT !.access_order = Tail(@)]
              IN  IF c.cache[oldest] = NotCached
                  THEN [c |-> popped, raised |-> TRUE]
                  ELSE [c |-> [popped EXCEPT !.cache[oldest] = NotCached,
                                             !.cache[key] = value,
                                             !.access_order = Append(@, key)],
                        raised |-> FALSE]
    ELSE [c |-> [c EXCEPT !.cache[key] = value,
                          !.access_order = Append(@, key)],
          raised |-> FALSE]

\* The keys in the cache that no get or set touched for the longest time.
LeastRecentlyTouched(c, t) ==
    {k \in KeysIn(c) : \A j \in KeysIn(c) : t[k] <= t[j]}

NoCall ==
    [op |-> "none", key |-> 0, new |-> FALSE, full |-> FALSE, raised |-> FALSE,
     evicted |-> {}, lru |-> {}]

\* What a call did, seen from outside: c and t are the cache and the touch
\* times before it, after is the cache it left.
CallRecord(op, key, c, t, after, raised) ==
    [op |-> op, key |-> key, new |-> c.cache[key] = NotCached,
     full |-> Cardinality(KeysIn(c)) >= c.max_size, raised |-> raised,
     evicted |-> KeysIn(c) \ KeysIn(after), lru |-> LeastRecentlyTouched(c, t)]

\* One thread calls global_cache.get(key).
CacheGet(key) ==
    /\ clock < MaxCacheCalls
    /\ LET r == cache_get(global_cache, key)
       IN  /\ global_cache' = r.c
           /\ last_call' = CallRecord("get", key, global_cache, touch, r.c, r.raised)
           /\ touch' = IF global_cache.cache[key] /= NotCached
                       THEN [touch EXCEPT ![key] = clock + 1] ELSE touch
    /\ clock' = clock + 1
    /\ UNCHANGED <<workers, notCacheVars>>

\* One thread calls global_cache.set(key, value).
CacheSet(key, value) ==
    /\ clock < MaxCacheCalls
    /\ LET r == cache_set(global_cache, key, value)
       IN  /\ global_cache' = r.c
           /\ last_call' = CallRecord("set", key, global_cache, touch, r.c, r.raised)
           /\ touch' = IF r.raised THEN touch ELSE [touch EXCEPT ![key] = clock + 1]
    /\ clock' = clock + 1
    /\ UNCHANGED <<workers, notCacheVars>>

\* OptimizedCache.clear() (lines 201-203): the dict and the list are emptied.
cache_clear(c) == [c EXCEPT !.cache = EmptyCache, !.access_order = <<>>]

\* global_cache.clear(), as main() calls it when a command ends (line 2561).
CacheClear ==
    /\ clock < MaxCacheCalls
    /\ global_cache' = cache_clear(global_cache)
    /\ last_call' = [NoCall EXCEPT !.op = "clear",
                                   !.full = Cardinality(KeysIn(global_cache))
                                                >= global_cache.max_size,
                                   !.evicted = KeysIn(global_cache),
                                   !.lru = LeastRecentlyTouched(global_cache, touch)]
    /\ touch' = touch
    /\ clock' = clock + 1
    /\ UNCHANGED <<workers, notCacheVars>>

InitCache ==
    /\ global_cache \in [cache : {EmptyCache}, access_order : {<<>>},
                         max_size : 0..MaxCacheSize]
    /\ touch = [k \in CacheKeys |-> 0]
    /\ clock = 0
    /\ last_call = NoCall
    /\ workers = <<>>
    /\ IdleRequestPart
    /\ IdleScrapePart
    /\ IdleVolumesPart
    /\ IdleUltraPart
    /\ IdleSmartPart
    /\ IdleSessPart
    /\ IdleRetryPart
    /\ IdleBackupPart
    /\ IdleTransportPart
    /\ IdleMonitorPart
    /\ IdlePoolPart
    /\ IdleSafePart
    /\ IdleChunkPart

NextCache ==
    \/ \E key \in CacheKeys : CacheGet(key)
    \/ \E key \in CacheKeys, value \in CacheValues : CacheSet(key, value)
    \/ CacheClear

SpecCache == InitCache /\ [][NextCache]_vars

\* C11: after any sequence of get and set calls the cache holds at most
\* max_size entries, and a set of a new key on a full cache evicts exactly one
\* entry, the one least recently touched by a get or a set; no other get or
\* set evicts anything.
C11_BoundedLRU ==
    /\ Cardinality(KeysIn(global_cache)) <= global_cache.max_size
    /\ (last_call.op = "set" /\ last_call.new /\ last_call.full /\ ~last_call.raised)
           => (Cardinality(last_call.evicted) = 1 /\ last_call.evicted = last_call.lru)
    /\ (last_call.op \in {"get", "set"}
            /\ ~(last_call.op = "set" /\ last_call.new /\ last_call.full))
           => last_call.evicted = {}

\* A set of a new key on a full cache of two entries evicted one entry and
\* kept the entry that the call before it had touched again.
C11_Witness ==
    /\ last_call.op = "set" /\ last_call.new /\ last_call.full /\ ~last_call.raised
    /\ global_cache.max_size = 2
    /\ clock >= 4
    /\ \E j \in KeysIn(global_cache) : j /= last_call.key /\ touch[j] = clock - 1
    /\ \E k \in last_call.evicted : touch[k] = clock - 2

\* The worker threads of the pool of extract_pages_traditional_method.
MaxWorkerThreads == 2

WorkerThreads == 1..MaxWorkerThreads

IdleWorker ==
    [pc |-> "idle", key |-> 0, value |-> None, oldest |-> 0, raised |-> FALSE]

\* OptimizedCache has no lock: a thread can be switched out between any two
\* operations on the dict and the list.  Each action below is one such
\* operation of the thread t.

\* t enters get(key): `if key in self.cache` (line 179).
WorkerGetCheck(t, key) ==
    /\ workers[t].pc = "idle"
    /\ clock < MaxCacheCalls
    /\ clock' = clock + 1
    /\ workers' = [workers EXCEPT ![t] =
           [IdleWorker EXCEPT !.key = key, !.raised = workers[t].raised,
               !.pc = IF global_cache.cache[key] /= NotCached
                      THEN "get_remove" ELSE "idle"]]
    /\ UNCHANGED <<global_cache, touch, last_call, notCacheVars>>

\* t enters set(key, value): `if key in self.cache` (line 187).
WorkerSetCheck(t, key, value) ==
    /\ workers[t].pc = "idle"
    /\ clock < MaxCacheCalls
    /\ clock' = clock + 1
    /\ workers' = [workers EXCEPT ![t] =
           [IdleWorker EXCEPT !.key = key, !.value = value,
               !.raised = workers[t].raised,
               !.pc = IF global_cache.cache[key] /= NotCached
                      THEN "set_write" ELSE "set_len"]]
    /\ UNCHANGED <<global_cache, touch, last_call, notCacheVars>>

\* self.access_order.remove(key) of get (line 181) or set (line 189):
\* ValueError ends the call when the key is not in the list.
WorkerRemove(t) ==
    /\ workers[t].pc \in {"get_remove", "set_remove"}
    /\ IF workers[t].key \in SeqToSet(global_cache.access_order)
       THEN /\ global_cache' = [global_cache EXCEPT
                                   !.access_order = RemoveFirst(@, workers[t].key)]
            /\ workers' = [workers EXCEPT ![t].pc =
                   IF workers[t].pc = "get_remove" THEN "get_append" ELSE "set_append"]
       ELSE /\ workers' = [workers EXCEPT ![t].pc = "idle", ![t].raised = TRUE]
            /\ UNCHANGED global_cache
    /\ UNCHANGED <<touch, clock, last_call, notCacheVars>>

\* self.access_order.append(key) (lines 182, 190, 199); set returns after it.
WorkerAppend(t) ==
    /\ workers[t].pc \in {"get_append", "set_append"}
    /\ global_cache' = [global_cache EXCEPT !.access_order = Append(@, workers[t].key)]
    /\ workers' = [workers EXCEPT ![t].pc =
           IF workers[t].pc = "get_append" THEN "get_return" ELSE "idle"]
    /\ UNCHANGED <<touch, clock, last_call, notCacheVars>>

\* return self.cache[key] of get (line 183): KeyError when the key is gone.
WorkerGetReturn(t) ==
    /\ workers[t].pc = "get_return"
    /\ workers' = [workers EXCEPT ![t].pc = "idle",
           ![t].raised = @ \/ global_cache.cache[workers[t].key] = NotCached]
    /\ UNCHANGED <<global_cache, touch, clock, last_call, notCacheVars>>

\* self.cache[key] = value of the branch for a key in the cache (line 188).
WorkerSetWrite(t) ==
    /\ workers[t].pc = "set_write"
    /\ global_cache' = [global_cache EXCEPT !.cache[workers[t].key] = workers[t].value]
    /\ workers' = [workers EXCEPT ![t].pc = "set_remove"]
    /\ UNCHANGED <<touch, clock, last_call, notCacheVars>>

\* `if len(self.cache) >= self.max_size` of the branch for a new key (line 193).
WorkerSetLen(t) ==
    /\ workers[t].pc = "set_len"
    /\ workers' = [workers EXCEPT ![t].pc =
           IF Cardinality(KeysIn(global_cache)) >= global_cache.max_size
           THEN "set_pop" ELSE "set_insert"]
    /\ UNCHANGED <<global_cache, touch, clock, last_call, notCacheVars>>

\* oldest = self.access_order.pop(0) (line 195): IndexError on an empty list.
WorkerSetPop(t) ==
    /\ workers[t].pc = "set_pop"
    /\ IF global_cache.access_order /= <<>>
       THEN /\ global_cache' = [global_cache EXCEPT !.access_order = Tail(@)]
            /\ workers' = [workers EXCEPT ![t].pc = "set_del",
                               ![t].oldest = Head(global_cache.access_order)]
       ELSE /\ workers' = [workers EXCEPT ![t].pc = "idle", ![t].raised = TRUE]
            /\ UNCHANGED global_cache
    /\ UNCHANGED <<touch, clock, last_call, notCacheVars>>

\* del self.cache[oldest] (line 196): KeyError when the key is gone.
WorkerSetDel(t) ==
    /\ workers[t].pc = "set_del"
    /\ IF global_cache.cache[workers[t].oldest] /= NotCached
       THEN /\ global_cache' = [global_cache EXCEPT !.cache[workers[t].oldest] = NotCached]
            /\ workers' = [workers EXCEPT ![t].pc = "set_insert"]
       ELSE /\ workers' = [workers EXCEPT ![t].pc = "idle", ![t].raised = TRUE]
            /\ UNCHANGED global_cache
    /\ UNCHANGED <<touch, clock, last_call, notCacheVars>>

\* self.cache[key] = value of the branch for a new key (line 198).
WorkerSetInsert(t) ==
    /\ workers[t].pc = "set_insert"
    /\ global_cache' = [global_cache EXCEPT !.cache[workers[t].key] = workers[t].value]
    /\ workers' = [workers EXCEPT ![t].pc = "set_append"]
    /\ UNCHANGED <<touch, clock, last_call, notCacheVars>>

InitCacheThreads ==
    /\ global_cache \in [cache : {EmptyCache}, access_order : {<<>>},
                         max_size : 1..MaxCacheSize]
    /\ touch = [k \in CacheKeys |-> 0]
    /\ clock = 0
    /\ last_call = NoCall
    /\ workers = [t \in WorkerThreads |-> IdleWorker]
    /\ IdleRequestPart
    /\ IdleScrapePart
    /\ IdleVolumesPart
    /\ IdleUltraPart
    /\ IdleSmartPart
    /\ IdleSessPart
    /\ IdleRetryPart
    /\ IdleBackupPart
    /\ IdleTransportPart
    /\ IdleMonitorPart
    /\ IdlePoolPart
    /\ IdleSafePart
    /\ IdleChunkPart

NextCacheThreads ==
    \E t \in WorkerThreads :
        \/ \E key \in CacheKeys : WorkerGetCheck(t, key)
        \/ \E key \in CacheKeys, value \in CacheValues : WorkerSetCheck(t, key, value)
        \/ WorkerRemove(t)
        \/ WorkerAppend(t)
        \/ WorkerGetReturn(t)
        \/ WorkerSetWrite(t)
        \/ WorkerSetLen(t)
        \/ WorkerSetPop(t)
        \/ WorkerSetDel(t)
        \/ WorkerSetInsert(t)

SpecCacheThreads == InitCacheThreads /\ [][NextCacheThreads]_vars

\* C13: under any interleaving of the worker threads' get and set calls on
\* global_cache no call raises, and whenever no call is in progress the cache
\* holds at most max_size entries and access_order is a duplicate-free list of
\* exactly the keys in the cache.
C13_CacheSafeUnderThreads ==
    /\ \A t \in WorkerThreads : ~workers[t].raised
    /\ (\A t \in WorkerThreads : workers[t].pc = "idle")
           => /\ Cardinality(KeysIn(global_cache)) <= global_cache.max_size
              /\ SeqToSet(global_cache.access_order) = KeysIn(global_cache)
              /\ Len(global_cache.access_order) = Cardinality(KeysIn(global_cache))

(***************************************************************************)
(* Part 6: SmartCache, the two-tier cache of UltraReliableExtractor.        *)
(* memory_cache is kept as its set of keys, access_count as the list of    *)
(* its items in the dict's insertion order, the persistent tier as the set *)
(* of keys of the sqlite table; old holds the keys whose last set is more  *)
(* than cache_duration seconds ago.  A hit returns the value of the key's  *)
(* last set: set writes it to both tiers.                                  *)
(***************************************************************************)

\* The cache_size_limit values tried.
SmartLimits == 1..MaxCacheSize

\* The largest power of two p, 2p, 4p, ... that is below x.
RECURSIVE PowerOfTwoBelow(_, _)
PowerOfTwoBelow(p, x) == IF 2 * p < x THEN PowerOfTwoBelow(2 * p, x) ELSE p

\* keep_count = int(self.config.cache_size_limit * 0.7) (line 196), in double
\* arithmetic.  The double 0.7 is 0.4 / 2^53 below 7/10, so the product is
\* the double nearest to 7 * limit / 10 - 4 * limit / (10 * 2^53).  When
\* limit is not a multiple of 10 its integer part is that of 7 * limit / 10.
\* When limit = 10 * m the exact product is just below 7 * m: it rounds to
\* 7 * m when the distance 4 * m / 2^53 is at most half the spacing
\* 2^e / 2^52 of the doubles of [2^e, 2^(e+1)), the range that ends at 7 * m,
\* and to the double before 7 * m otherwise, which int() truncates to
\* 7 * m - 1 (limit = 90 gives 62).
keep_count(limit) ==
    IF limit % 10 /= 0 \/ limit = 0
    THEN (limit * 7) \div 10
    ELSE LET m == limit \div 10
         IN  IF 4 * m <= PowerOfTwoBelow(1, 7 * m) THEN 7 * m ELSE 7 * m - 1

\* access_count.get(key, 0)
CountOf(ac, key) ==
    IF \E i \in 1..Len(ac) : ac[i].key = key
    THEN ac[CHOOSE i \in 1..Len(ac) : ac[i].key = key].count
    ELSE 0

\* access_count[key] = n: an existing key keeps its place in the dict, a new
\* one goes last.
SetCount(ac, key, n) ==
    IF \E i \in 1..Len(ac) : ac[i].key = key
    THEN [i \in 1..Len(ac) |-> IF ac[i].key = key THEN [key |-> key, count |-> n] ELSE ac[i]]
    ELSE Append(ac, [key |-> key, count |-> n])

\* sorted(items, key=lambda x: x[1], reverse=True): a stable sort, items of
\* equal count keep their order.
RECURSIVE InsertByCountDesc(_, _)
InsertByCountDesc(s, x) ==
    IF s = <<>> THEN <<x>>
    ELSE IF s[Len(s)].count >= x.count THEN Append(s, x)
    ELSE Append(InsertByCountDesc(SubSeq(s, 1, Len(s) - 1), x), s[Len(s)])

RECURSIVE SortByCountDesc(_)
SortByCountDesc(s) ==
    IF s = <<>> THEN <<>>
    ELSE InsertByCountDesc(SortByCountDesc(SubSeq(s, 1, Len(s) - 1)), s[Len(s)])

\* SmartCache._cleanup_memory_cache (lines 187-203): the keep_count keys of
\* highest access count stay, the other keys of memory_cache go.
cleanup_memory_cache(c) ==
    LET sorted_items   == SortByCountDesc(c.access_count)
        kept           == SubSeq(sorted_items, 1, Min(keep_count(c.cache_size_limit),
                                                      Len(sorted_items)))
        keys_to_keep   == {kept[i].key : i \in 1..Len(kept)}
        keys_to_remove == c.memory_cache \ keys_to_keep
    IN  [c EXCEPT !.memory_cache = @ \ keys_to_remove,
                  !.access_count = SelectSeq(@, LAMBDA e : e.key \notin keys_to_remove)]

\* SmartCache.set(key, value) (lines 164-185).
smart_set(c, key) ==
    LET stored == [c EXCEPT !.memory_cache = @ \cup {key},
                            !.access_count = SetCount(@, key, 1)]
        trimmed == IF Cardinality(stored.memory_cache) > c.cache_size_limit
                   THEN cleanup_memory_cache(stored) ELSE stored
    IN  [trimmed EXCEPT !.persistent = IF c.persistent_cache THEN @ \cup {key} ELSE @,
                        !.old = @ \ {key}]

\* SmartCache.get(key) (lines 128-162): a key of memory_cache is counted and
\* returned; else a row of the persistent tier younger than cache_duration
\* is copied into memory_cache, with no trimming.
smart_get(c, key, expired) ==
    IF key \in c.memory_cache
    THEN [c EXCEPT !.access_count = SetCount(@, key, CountOf(@, key) + 1)]
    ELSE IF c.persistent_cache /\ key \in c.persistent /\ ~expired
    THEN [c EXCEPT !.memory_cache = @ \cup {key},
                   !.access_count = SetCount(@, key, CountOf(@, key) + 1)]
    ELSE c

SmartGet(key) ==
    /\ smart_clock < MaxCacheCalls
    /\ LET after == smart_get(smart_cache, key, key \in smart_cache.old)
       IN  /\ smart_cache' = after
           /\ smart_touch' = IF key \in after.memory_cache
                             THEN [smart_touch EXCEPT ![key] = smart_clock + 1]
                             ELSE smart_touch
           /\ smart_last' = [op |-> "get", key |-> key,
                             evicted |-> smart_cache.memory_cache \ after.memory_cache,
                             hit |-> key \in after.memory_cache,
                             expired |-> key \in smart_cache.old,
                             after_set |-> smart_last.op = "set" /\ smart_last.key = key]
    /\ smart_clock' = smart_clock + 1
    /\ UNCHANGED notSmartVars

SmartSet(key) ==
    /\ smart_clock < MaxCacheCalls
    /\ LET after == smart_set(smart_cache, key)
       IN  /\ smart_cache' = after
           /\ smart_last' = [op |-> "set", key |-> key,
                             evicted |-> (smart_cache.memory_cache \cup {key})
                                             \ after.memory_cache,
                             hit |-> FALSE, expired |-> FALSE, after_set |-> FALSE]
    /\ smart_touch' = [smart_touch EXCEPT ![key] = smart_clock + 1]
    /\ smart_clock' = smart_clock + 1
    /\ UNCHANGED notSmartVars

\* More than cache_duration seconds have passed since the last set of key.
SmartEntryExpires(key) ==
    /\ key \in smart_cache.memory_cache \cup smart_cache.persistent
    /\ key \notin smart_cache.old
    /\ smart_cache' = [smart_cache EXCEPT !.old = @ \cup {key}]
    /\ smart_last' = [smart_last EXCEPT !.op = "time"]
    /\ UNCHANGED <<smart_touch, smart_clock, notSmartVars>>

InitSmart ==
    /\ smart_cache \in [memory_cache : {{}}, access_count : {<<>>}, persistent : {{}},
                        cache_size_limit : SmartLimits, persistent_cache : BOOLEAN,
                        old : {{}}]
    /\ smart_touch = [k \in CacheKeys |-> 0]
    /\ smart_clock = 0
    /\ smart_last = [op |-> "none", key |-> 0, evicted |-> {}, hit |-> FALSE,
                     expired |-> FALSE, after_set |-> FALSE]
    /\ IdleRequestPart
    /\ IdleScrapePart
    /\ IdleVolumesPart
    /\ IdleUltraPart
    /\ IdleCachePart
    /\ IdleSessPart
    /\ IdleRetryPart
    /\ IdleBackupPart
    /\ IdleTransportPart
    /\ IdleMonitorPart
    /\ IdlePoolPart
    /\ IdleSafePart
    /\ IdleChunkPart

NextSmart ==
    \/ \E key \in CacheKeys : SmartGet(key)
    \/ \E key \in CacheKeys : SmartSet(key)
    \/ \E key \in CacheKeys : SmartEntryExpires(key)

SpecSmart == InitSmart /\ [][NextSmart]_vars

\* C12: after every SmartCache.set, memory_cache holds at most
\* cache_size_limit entries, and the entries the set removed are the least
\* recently used: none of them was read or written later than an entry kept.
C12_SmartCacheLRU ==
    smart_last.op = "set"
        => /\ Cardinality(smart_cache.memory_cache) <= smart_cache.cache_size_limit
           /\ \A e \in smart_last.evicted : \A k \in smart_cache.memory_cache :
                  smart_touch[e] < smart_touch[k]

\* C25: SmartCache.get(k) returns None whenever the entry for k was written
\* more than cache_duration seconds earlier, whichever tier holds it.
C25_ExpiredEntryIsMiss ==
    (smart_last.op = "get" /\ smart_last.expired) => ~smart_last.hit

\* C27: with persistent_cache disabled, a get(k) that directly follows a
\* set(k, v) returns v, also when the set ran _cleanup_memory_cache.
C27_ReadYourWrites ==
    (smart_last.op = "get" /\ smart_last.after_set /\ ~smart_cache.persistent_cache)
        => smart_last.hit

(***************************************************************************)
(* Part 7: one UltraReliableSession shared by the worker threads of        *)
(* _process_batch_ultra_reliable.  Only the monitor has a lock; _request,  *)
(* _health_check and _reset_session run unlocked, so each action below is  *)
(* one step of a thread between two possible switches.                     *)
(***************************************************************************)

\* Bound: the _request calls the threads start in all.
MaxThreadCalls == 3

\* Bound: the recovery_attempts of the shared session's configuration.
MaxThreadRecoveryAttempts == 1

SessionThreads == 1..MaxWorkerThreads

IdleThreadReq ==
    [pc |-> "idle", ref |-> 0, recovery_attempt |-> 0, via |-> "none",
     on_closed |-> FALSE]

\* The steps of _reset_session.
ResetPcs == {"reset_close", "reset_create", "reset_record"}

\* t enters _request: _health_check (lines 203-210) starts a reset when the
\* interval has elapsed and the monitor is not healthy.
ThreadRequestStart(t, elapsed, stale) ==
    /\ thread_req[t].pc = "idle"
    /\ thread_calls < MaxThreadCalls
    /\ thread_calls' = thread_calls + 1
    /\ thread_req' = [thread_req EXCEPT ![t] =
           IF elapsed /\ ~is_healthy(shared_stats, shared_config, stale)
           THEN [IdleThreadReq EXCEPT !.pc = "reset_close", !.via = "health"]
           ELSE [IdleThreadReq EXCEPT !.pc = "load_session"]]
    /\ UNCHANGED <<shared_config, shared_stats, shared_session, notSessVars>>

\* self.session.close() of _reset_session (lines 214-217).
ThreadResetClose(t) ==
    /\ thread_req[t].pc = "reset_close"
    /\ shared_session' = [shared_session EXCEPT !.closed = @ \cup {shared_session.current}]
    /\ thread_req' = [thread_req EXCEPT ![t].pc = "reset_create"]
    /\ UNCHANGED <<shared_config, shared_stats, thread_calls, notSessVars>>

\* self.session = self._create_session() of _reset_session (line 218).
ThreadResetCreate(t) ==
    /\ thread_req[t].pc = "reset_create"
    /\ shared_session' = [shared_session EXCEPT
           !.current = Max(@, SetMax(shared_session.closed \cup {0})) + 1]
    /\ thread_req' = [thread_req EXCEPT ![t].pc = "reset_record"]
    /\ UNCHANGED <<shared_config, shared_stats, thread_calls, notSessVars>>

\* self.monitor.record_recovery() of _reset_session (line 219), under the
\* monitor's lock; the thread goes on to its next self.session.request.
ThreadResetRecord(t) ==
    /\ thread_req[t].pc = "reset_record"
    /\ shared_stats' = record_recovery(shared_stats)
    /\ thread_req' = [thread_req EXCEPT ![t].pc = "load_session",
           ![t].recovery_attempt = IF thread_req[t].via = "recovery" THEN @ + 1 ELSE @,
           ![t].via = "none"]
    /\ UNCHANGED <<shared_config, shared_session, thread_calls, notSessVars>>

\* UltraReliableSession.close(), also run by __exit__ (lines 289-300): the
\* current requests.Session is closed and stays self.session.
SessionClose ==
    /\ shared_session.current \notin shared_session.closed
    /\ shared_session' = [shared_session EXCEPT !.closed = @ \cup {shared_session.current}]
    /\ UNCHANGED <<shared_config, shared_stats, thread_req, thread_calls, notSessVars>>

\* The attribute self.session is read for self.session.request (line 250).
ThreadLoadSession(t) ==
    /\ thread_req[t].pc = "load_session"
    /\ thread_req' = [thread_req EXCEPT ![t].pc = "issue",
                                        ![t].ref = shared_session.current]
    /\ UNCHANGED <<shared_config, shared_stats, shared_session, thread_calls,
                   notSessVars>>

\* The request is issued on the session object that was read.
ThreadIssue(t) ==
    /\ thread_req[t].pc = "issue"
    /\ thread_req' = [thread_req EXCEPT ![t].pc = "in_flight",
           ![t].on_closed = thread_req[t].ref \in shared_session.closed]
    /\ UNCHANGED <<shared_config, shared_stats, shared_session, thread_calls,
                   notSessVars>>

\* The request gives a 200 response (lines 253-255).
ThreadSuccess(t) ==
    /\ thread_req[t].pc = "in_flight"
    /\ shared_stats' = record_success(shared_stats)
    /\ thread_req' = [thread_req EXCEPT ![t] = IdleThreadReq]
    /\ UNCHANGED <<shared_config, shared_session, thread_calls, notSessVars>>

\* The request gives a response whose status is not 200 (lines 256-264): the
\* failure is recorded and HTTPError raised, which the handler of line 266
\* catches.
ThreadStatusError(t) ==
    /\ thread_req[t].pc = "in_flight"
    /\ shared_stats' = record_failure(shared_stats)
    /\ thread_req' = [thread_req EXCEPT ![t].pc = "status_raised"]
    /\ UNCHANGED <<shared_config, shared_session, thread_calls, notSessVars>>

\* The handler of lines 266-282, entered when the request raised or with the
\* HTTPError of a status other than 200: the failure is recorded, and the
\* loop goes on, through _reset_session before its last pass, or ends.
ThreadFailure(t) ==
    /\ thread_req[t].pc \in {"in_flight", "status_raised"}
    /\ shared_stats' = record_failure(shared_stats)
    /\ LET r == thread_req[t]
           again == r.recovery_attempt < shared_config.recovery_attempts
           reset == again /\ r.recovery_attempt = shared_config.recovery_attempts - 1
       IN  thread_req' = [thread_req EXCEPT ![t] =
               IF reset THEN [r EXCEPT !.pc = "reset_close", !.via = "recovery",
                                       !.on_closed = FALSE]
               ELSE IF again THEN [r EXCEPT !.pc = "load_session",
                                            !.recovery_attempt = @ + 1,
                                            !.on_closed = FALSE]
               ELSE IdleThreadReq]
    /\ UNCHANGED <<shared_config, shared_session, thread_calls, notSessVars>>

InitSessionThreads ==
    /\ shared_config \in [recovery_attempts : 0..MaxThreadRecoveryAttempts,
                          max_consecutive_failures : 1..MaxConsecutiveFailures]
    /\ shared_stats = InitStats
    /\ shared_session = [current |-> 1, closed |-> {}]
    /\ thread_req = [t \in SessionThreads |-> IdleThreadReq]
    /\ thread_calls = 0
    /\ IdleRequestPart
    /\ IdleScrapePart
    /\ IdleVolumesPart
    /\ IdleUltraPart
    /\ IdleCachePart
    /\ IdleSmartPart
    /\ IdleRetryPart
    /\ IdleBackupPart
    /\ IdleTransportPart
    /\ IdleMonitorPart
    /\ IdlePoolPart
    /\ IdleSafePart
    /\ IdleChunkPart

NextSessionThreads ==
    \E t \in SessionThreads :
        \/ \E elapsed \in BOOLEAN, stale \in BOOLEAN : ThreadRequestStart(t, elapsed, stale)
        \/ ThreadResetClose(t)
        \/ ThreadResetCreate(t)
        \/ ThreadResetRecord(t)
        \/ ThreadLoadSession(t)
        \/ ThreadIssue(t)
        \/ ThreadSuccess(t)
        \/ ThreadStatusError(t)
        \/ ThreadFailure(t)
        \/ SessionClose

SpecSessionThreads == InitSessionThreads /\ [][NextSessionThreads]_vars

\* C14: while worker threads share one session, only the retry loop's
\* recovery path replaces the transport, at most one thread is inside
\* _reset_session at a time, and no thread issues a request on a session
\* object that has been closed.
C14_ResetExclusive ==
    /\ \A t \in SessionThreads :
           thread_req[t].pc \in ResetPcs => thread_req[t].via = "recovery"
    /\ Cardinality({t \in SessionThreads : thread_req[t].pc \in ResetPcs}) <= 1
    /\ \A t \in SessionThreads : ~thread_req[t].on_closed

(***************************************************************************)
(* Part 8: UltraReliableScraper.extract_with_retry and the result that     *)
(* extract_book_ultra_reliable (src/ultra_reliable_scraper.py) reports.    *)
(***************************************************************************)

\* Bounds of the retry model.
MaxScrapeRetries == 2

MaxBookPages == 2

\* A page of a scraped Book: its page_number and whether its content has
\* fewer than 10 characters once stripped.
ScrapedPages == [page_number : 1..MaxBookPages, empty : BOOLEAN]

RECURSIVE SeqsUpTo(_, _)
SeqsUpTo(S, n) ==
    IF n = 0 THEN {<<>>}
    ELSE LET shorter == SeqsUpTo(S, n - 1)
         IN  shorter \cup {Append(s, x) : s \in shorter, x \in S}

\* What scrape_enhanced_book can hand back: a Book (has_title: the title is
\* not empty) or, with present = FALSE, None.
ScrapedBooks ==
    [present : {TRUE}, has_title : BOOLEAN, pages : SeqsUpTo(ScrapedPages, MaxBookPages)]
        \cup {[present |-> FALSE, has_title |-> FALSE, pages |-> <<>>]}

NoBook == [present |-> FALSE, has_title |-> FALSE, pages |-> <<>>]

\* verify_book_extraction without its test for repeated page numbers (lines
\* 123-127).
verify_without_duplicates(b) ==
    /\ b.present
    /\ b.has_title
    /\ b.pages /= <<>>
    /\ ~(Cardinality({i \in 1..Len(b.pages) : b.pages[i].empty}) * 2 > Len(b.pages))

\* UltraReliableScraper.verify_book_extraction (lines 100-142).
verify_book_extraction(b) ==
    /\ b.present
    /\ b.has_title
    /\ b.pages /= <<>>
    /\ ~(Cardinality({i \in 1..Len(b.pages) : b.pages[i].empty}) * 2 > Len(b.pages))
    /\ Len(b.pages) = Cardinality({b.pages[i].page_number : i \in 1..Len(b.pages)})

IdleRetryCall ==
    [pc |-> "idle", attempt |-> 0, attempts |-> 0, failures |-> 0,
     book |-> NoBook, last |-> "none", success |-> FALSE]

\* extract_book_ultra_reliable enters extract_with_retry (lines 298-305).
RetryStart ==
    /\ retry_call.pc = "idle"
    /\ retry_call' = [IdleRetryCall EXCEPT
           !.pc = IF retry_config.max_retries + 1 > 0 THEN "attempt" ELSE "returned"]
    /\ UNCHANGED <<retry_config, notRetryVars>>

\* What the except branch (lines 163-181) makes of a failed pass.
RetryAfterFailure(r, why) ==
    [r EXCEPT !.attempts = @ + 1, !.failures = @ + 1, !.last = why,
              !.attempt = @ + 1,
              !.pc = IF r.attempt < retry_config.max_retries THEN "attempt" ELSE "returned",
              !.book = NoBook]

\* One pass of the loop in which scrape_enhanced_book raises.
RetryScrapeRaises ==
    /\ retry_call.pc = "attempt"
    /\ retry_call' = RetryAfterFailure(retry_call, "raised")
    /\ UNCHANGED <<retry_config, notRetryVars>>

\* One pass in which scrape_enhanced_book returns b (lines 150-161): b is
\* returned unless verification is on and rejects it.
RetryScrapeReturns(b) ==
    /\ retry_call.pc = "attempt"
    /\ retry_call' =
           IF retry_config.verify_extraction /\ ~verify_book_extraction(b)
           THEN RetryAfterFailure(retry_call, "unverified")
           ELSE [retry_call EXCEPT !.attempts = @ + 1, !.last = "ok",
                                   !.pc = "returned", !.book = b]
    /\ UNCHANGED <<retry_config, notRetryVars>>

\* extract_book_ultra_reliable after extract_with_retry (lines 307-333):
\* without a book it reports the failure; with one it saves it (saved: the
\* file was written and read back) and reports success only then.
RetryReport(saved) ==
    /\ retry_call.pc = "returned"
    /\ retry_call' = [retry_call EXCEPT !.pc = "reported",
                                        !.success = retry_call.book.present /\ saved]
    /\ UNCHANGED <<retry_config, notRetryVars>>

InitRetry ==
    /\ retry_config \in [max_retries : 0..MaxScrapeRetries, verify_extraction : BOOLEAN]
    /\ retry_call = IdleRetryCall
    /\ IdleRequestPart
    /\ IdleScrapePart
    /\ IdleVolumesPart
    /\ IdleUltraPart
    /\ IdleCachePart
    /\ IdleSmartPart
    /\ IdleSessPart
    /\ IdleBackupPart
    /\ IdleTransportPart
    /\ IdleMonitorPart
    /\ IdlePoolPart
    /\ IdleSafePart
    /\ IdleChunkPart

NextRetry ==
    \/ RetryStart
    \/ RetryScrapeRaises
    \/ \E b \in ScrapedBooks : RetryScrapeReturns(b)
    \/ \E saved \in BOOLEAN : RetryReport(saved)

SpecRetry == InitRetry /\ [][NextRetry]_vars

\* C16: with verify_extraction on, extract_with_retry returns a Book only if
\* it has a title, at least one page, at most half of its pages empty and no
\* page number twice; it makes at most max_retries + 1 attempts, returns None
\* only when all max_retries + 1 failed, and extract_book_ultra_reliable then
\* reports success = False.
C16_RetryReturnsVerifiedBook ==
    /\ retry_call.attempts <= retry_config.max_retries + 1
    /\ (retry_config.verify_extraction /\ retry_call.pc \in {"returned", "reported"}
            /\ retry_call.book.present)
           => LET p == retry_call.book.pages
              IN  /\ retry_call.book.has_title
                  /\ Len(p) >= 1
                  /\ 2 * Cardinality({i \in 1..Len(p) : p[i].empty}) <= Len(p)
                  /\ \A i, j \in 1..Len(p) : p[i].page_number = p[j].page_number => i = j
    /\ (retry_config.verify_extraction /\ retry_call.pc \in {"returned", "reported"}
            /\ ~retry_call.book.present)
           => /\ retry_call.attempts = retry_config.max_retries + 1
              /\ retry_call.failures = retry_call.attempts
    /\ (retry_call.pc = "reported" /\ ~retry_call.book.present) => ~retry_call.success

\* All three attempts of a call with max_retries = 2 failed, the last on
\* verification, and the failure was reported.
C16_Witness ==
    /\ retry_config.verify_extraction
    /\ retry_config.max_retries = 2
    /\ retry_call.pc = "reported"
    /\ retry_call.attempts = 3
    /\ retry_call.last = "unverified"
    /\ ~retry_call.success

(***************************************************************************)
(* Part 9: one BackupManager (src/ultra_reliability_system.py) used for    *)
(* several books.                                                          *)
(***************************************************************************)

\* Bounds of the backup model.
MaxBackupCalls == 4

MaxBackupFiles == 2

MaxBackupPageCount == 1

\* Book ids, each written as its parts between underscores: "1", "2" and
\* "1_2" (the repository's own test uses the id "test_book").
BackupBookIds == {<<"1">>, <<"2">>, <<"1", "2">>}

\* The parts between underscores of the name "backup_{book_id}_{page_count}
\* pages_{timestamp}.json" after "backup"; no book id has a part that equals
\* one of the last two.
file_name_parts(f) == f.book_id \o <<"{page_count}pages", "{timestamp}.json">>

\* Path.glob(f"backup_{book_id}_*.json") on one file: the name starts with
\* "backup_{book_id}_" and ends with ".json".
glob_matches(book_id, f) ==
    LET name == file_name_parts(f)
    IN  /\ Len(name) > Len(book_id)
        /\ SubSeq(name, 1, Len(book_id)) = book_id

\* The indices of the files of dir that the glob of book_id finds.
glob_backups(dir, book_id) == {i \in 1..Len(dir) : glob_matches(book_id, dir[i])}

RECURSIVE WithoutIndices(_, _, _)
WithoutIndices(dir, gone, i) ==
    IF i > Len(dir) THEN <<>>
    ELSE (IF i \in gone THEN <<>> ELSE <<dir[i]>>) \o WithoutIndices(dir, gone, i + 1)

\* BackupManager._cleanup_old_backups (lines 331-342): of the files the glob
\* finds, sorted newest first, all after the first max_backup_files are
\* unlinked.
cleanup_old_backups(dir, config, book_id) ==
    LET found == glob_backups(dir, book_id)
        old   == {i \in found :
                     Cardinality({j \in found : j > i}) >= config.max_backup_files}
    IN  WithoutIndices(dir, old, 1)

\* BackupManager.create_backup (lines 310-329): open(filepath, 'w') replaces a
\* file of the same name, and the file written is the newest of backup_dir.
backup_manager_create_backup(dir, config, data, book_id, n_pages, second) ==
    IF ~config.enable_backup THEN dir
    ELSE LET same == {i \in 1..Len(dir) : /\ dir[i].book_id = book_id
                                          /\ dir[i].page_count = n_pages
                                          /\ dir[i].timestamp = second}
             written == Append(WithoutIndices(dir, same, 1),
                               [book_id |-> book_id, page_count |-> n_pages,
                                timestamp |-> second, data |-> data])
         IN  cleanup_old_backups(written, config, book_id)

\* restore_from_backup returning None.
NoBackupData == [book_id |-> <<>>, serial |-> 0]

\* The greatest element of a non-empty set of numbers.
MaxOf(S) == CHOOSE x \in S : \A y \in S : y <= x

\* BackupManager.restore_from_backup (lines 344-362).
backup_manager_restore_from_backup(dir, book_id) ==
    LET found == glob_backups(dir, book_id)
    IN  IF found = {} THEN NoBackupData ELSE dir[MaxOf(found)].data

\* A create_backup call; ticked says whether int(time.time()) has changed
\* since the call before.  The data carry the book and the call's number.
BackupCreate(book_id, n_pages, ticked) ==
    /\ backup_clock.calls < MaxBackupCalls
    /\ LET second == backup_clock.second + (IF ticked THEN 1 ELSE 0)
           data   == [book_id |-> book_id, serial |-> backup_clock.calls + 1]
       IN  /\ backup_dir' = backup_manager_create_backup(backup_dir, backup_config, data,
                                                         book_id, n_pages, second)
           /\ backup_clock' = [second |-> second, calls |-> backup_clock.calls + 1]
    /\ backup_before' = [book_id |-> book_id, dir |-> backup_dir]
    /\ backup_restored' = [book_id |-> <<>>, data |-> NoBackupData]
    /\ UNCHANGED <<backup_config, notBackupVars>>

\* A restore_from_backup call.
BackupRestore(book_id) ==
    /\ backup_restored.book_id /= book_id
    /\ backup_restored' =
           [book_id |-> book_id,
            data |-> backup_manager_restore_from_backup(backup_dir, book_id)]
    /\ UNCHANGED <<backup_config, backup_dir, backup_clock, backup_before, notBackupVars>>

InitBackup ==
    /\ backup_config \in [enable_backup : BOOLEAN, max_backup_files : 1..MaxBackupFiles]
    /\ backup_dir = <<>>
    /\ backup_clock = [second |-> 0, calls |-> 0]
    /\ backup_before = [book_id |-> <<>>, dir |-> <<>>]
    /\ backup_restored = [book_id |-> <<>>, data |-> NoBackupData]
    /\ IdleRequestPart
    /\ IdleScrapePart
    /\ IdleVolumesPart
    /\ IdleUltraPart
    /\ IdleCachePart
    /\ IdleSmartPart
    /\ IdleSessPart
    /\ IdleRetryPart
    /\ IdleTransportPart
    /\ IdleMonitorPart
    /\ IdlePoolPart
    /\ IdleSafePart
    /\ IdleChunkPart

NextBackup ==
    \/ \E book_id \in BackupBookIds, n_pages \in 0..MaxBackupPageCount, ticked \in BOOLEAN :
           BackupCreate(book_id, n_pages, ticked)
    \/ \E book_id \in BackupBookIds : BackupRestore(book_id)

SpecBackup == InitBackup /\ [][NextBackup]_vars

\* The files of dir written for book_id.
BackupsOf(dir, book_id) == {dir[i] : i \in {j \in 1..Len(dir) : dir[j].book_id = book_id}}

\* C17: after any sequence of create_backup calls, every book has at most
\* max_backup_files backup files and they are its most recently written ones,
\* a call leaves the backups of other books untouched, and
\* restore_from_backup(book) returns the content of that book's newest backup.
C17_BackupsPerBook ==
    /\ \A b \in BackupBookIds :
           /\ Cardinality(BackupsOf(backup_dir, b)) <= backup_config.max_backup_files
           /\ \A f \in BackupsOf(backup_dir, b) :
                  Cardinality({g \in BackupsOf(backup_dir, b) :
                                   g.data.serial >= f.data.serial})
                      <= backup_config.max_backup_files
    /\ \A f \in SeqToSet(backup_before.dir) :
           f.book_id /= backup_before.book_id => f \in SeqToSet(backup_dir)
    /\ \A b \in BackupBookIds :
           backup_restored.book_id = b
               => LET own == BackupsOf(backup_dir, b)
                  IN  backup_restored.data =
                          IF own = {} THEN NoBackupData
                          ELSE (CHOOSE f \in own :
                                    \A g \in own : g.data.serial <= f.data.serial).data

(***************************************************************************)
(* Part 10: UltraReliableSession._request together with the urllib3 Retry  *)
(* of the adapter that _create_session mounts                              *)
(* (src/ultra_reliability_system.py).                                      *)
(***************************************************************************)

\* Bounds of the transport model.
MaxAdapterRetries == 2

MaxTransportCalls == 2

MaxTransportRecoveryAttempts == 2

\* The redirects one self.session.request is given to follow (requests gives
\* up after 30 of them).
MaxHttpRedirects == 1

\* What one HTTP attempt of the adapter can meet: a status, or "error" for a
\* connection error or timeout.  "503" stands for the statuses of
\* retry_status_forcelist, "413 retry-after" for a 413, 429 or 503 outside
\* retry_status_forcelist that carries a Retry-After header, "302" for a
\* redirect status with a Location header, "404" for the permanent statuses of
\* line 256, "400" for every other status that is not 200.  "body error" is a
\* response whose body stalls or is cut after its headers: stream is False
\* (line 242), so self.session.request reads the body after the adapter has
\* returned, and the error leaves it past the Retry.  "not sent" is a
\* request that requests refuses before it sends anything (InvalidSchema,
\* InvalidURL).
HttpOutcomes ==
    {"200", "503", "413 retry-after", "302", "404", "400", "error", "body error",
     "not sent"}

\* The outcomes for which Retry(total=max_retries, status_forcelist=...)
\* raises once it has no retry left (lines 164-169): a status of
\* status_forcelist (MaxRetryError) and a connection error or timeout.
AdapterRaised == {"503", "error"}

\* The outcomes that the Retry answers with another attempt while it has
\* retries left: those of AdapterRaised, and a status with Retry-After
\* (respect_retry_after_header), which comes back as the response once total
\* is 0.
AdapterRetried == AdapterRaised \cup {"413 retry-after"}

IdleHttpCall ==
    [pc |-> "idle", recovery_attempt |-> 0, adapter_retries |-> 0, redirects |-> 0,
     unsendable |-> FALSE, http_attempts |-> 0, passes |-> 0, transient_only |-> TRUE,
     rebuilds |-> 0, rebuilt_after |-> {}, failures_after_rebuild |-> {},
     recoveries_at_entry |-> 0, unhealthy_at_entry |-> FALSE, last |-> "none",
     timeouts |-> 0, third_try_successes |-> 0]

\* _request up to its first self.session.request: _health_check (lines
\* 203-210) rebuilds the session when the interval has elapsed and the monitor
\* is not healthy.
HttpRequestStart(elapsed, stale) ==
    /\ http_call.pc = "idle"
    /\ http_calls < MaxTransportCalls
    /\ http_calls' = http_calls + 1
    /\ LET unhealthy == elapsed /\ ~is_healthy(http_stats, http_config, stale)
           s         == IF unhealthy THEN record_recovery(http_stats) ELSE http_stats
       IN  /\ http_session' = IF unhealthy THEN http_session + 1 ELSE http_session
           /\ http_stats' = s
           /\ http_call' =
                  [IdleHttpCall EXCEPT
                      !.pc = "http",
                      !.recoveries_at_entry = http_stats.recoveries_performed,
                      !.unhealthy_at_entry = unhealthy,
                      !.third_try_successes = http_call.third_try_successes,
                      !.rebuilds = IF unhealthy THEN 1 ELSE 0,
                      !.rebuilt_after = IF unhealthy THEN {0} ELSE {},
                      !.failures_after_rebuild =
                          IF unhealthy THEN {s.consecutive_failures} ELSE {}]
    /\ UNCHANGED <<http_config, notTransportVars>>

\* An HTTP attempt that the adapter answers with another attempt of the same
\* self.session.request: the outcome is retried and retries are left.
HttpAdapterRetry(outcome) ==
    /\ http_call.pc = "http"
    /\ ~http_call.unsendable
    /\ outcome \in AdapterRetried
    /\ http_call.adapter_retries < http_config.max_retries
    /\ http_call' = [http_call EXCEPT !.adapter_retries = @ + 1,
                                      !.http_attempts = @ + 1,
                                      !.timeouts = IF outcome = "error" THEN @ + 1 ELSE @,
                                      !.last = outcome]
    /\ UNCHANGED <<http_config, http_stats, http_session, http_calls, notTransportVars>>

\* An HTTP attempt that answers with a redirect: allow_redirects is set (line
\* 241), so self.session.request sends the request for the Location, and the
\* adapter gives that request the whole Retry again.
HttpRedirect ==
    /\ http_call.pc = "http"
    /\ ~http_call.unsendable
    /\ http_config.allow_redirects
    /\ http_call.redirects < MaxHttpRedirects
    /\ http_call' = [http_call EXCEPT !.adapter_retries = 0,
                                      !.redirects = @ + 1,
                                      !.http_attempts = @ + 1,
                                      !.last = "302"]
    /\ UNCHANGED <<http_config, http_stats, http_session, http_calls, notTransportVars>>

\* An HTTP attempt that answers 200: self.session.request returns it and
\* _request returns (lines 250-255).
HttpSuccess ==
    /\ http_call.pc = "http"
    /\ ~http_call.unsendable
    /\ http_stats' = record_success(http_stats)
    /\ http_call' = [http_call EXCEPT !.pc = "returned", !.http_attempts = @ + 1,
                                      !.passes = @ + 1, !.transient_only = FALSE,
                                      !.third_try_successes =
                                          IF http_call.http_attempts = 2
                                             /\ http_call.timeouts = 2
                                          THEN @ + 1 ELSE @,
                                      !.last = "200"]
    /\ UNCHANGED <<http_config, http_session, http_calls, notTransportVars>>

\* The self.session.request of this pass ends in failure: a status the
\* adapter neither retries nor follows comes back as a response and _request
\* raises HTTPError for it (lines 256-264, the failure is recorded twice), or
\* self.session.request raises (the failure is recorded once): the adapter has
\* no retry left, the body of the response cannot be read, or the request is
\* refused before it is sent, which makes no HTTP attempt.  The URL of the
\* call is refused on every pass (unsendable); the Location of a redirect can
\* be refused on any.  Then the except branch of lines 266-282 runs.
HttpPassFails(outcome) ==
    /\ http_call.pc = "http"
    /\ outcome \in HttpOutcomes \ {"200"}
    /\ outcome \in AdapterRetried => http_call.adapter_retries = http_config.max_retries
    /\ outcome = "302" => ~http_config.allow_redirects
    /\ http_call.unsendable => outcome = "not sent"
    /\ outcome = "not sent"
           => /\ http_call.adapter_retries = 0
              /\ http_call.redirects > 0 \/ http_call.unsendable \/ http_call.passes = 0
    /\ LET again   == http_call.recovery_attempt < http_config.recovery_attempts
           reset   == again /\ http_call.recovery_attempt = http_config.recovery_attempts - 1
           raised  == outcome \in AdapterRaised \cup {"body error", "not sent"}
           failed  == IF raised
                      THEN record_failure(http_stats)
                      ELSE record_failure(record_failure(http_stats))
           s       == IF reset THEN record_recovery(failed) ELSE failed
       IN  /\ http_stats' = s
           /\ http_session' = IF reset THEN http_session + 1 ELSE http_session
           /\ http_call' =
                  [http_call EXCEPT
                      !.pc = IF again THEN "http" ELSE "raised",
                      !.recovery_attempt = IF again THEN @ + 1 ELSE @,
                      !.adapter_retries = 0,
                      !.redirects = 0,
                      !.unsendable = outcome = "not sent" /\ http_call.redirects = 0,
                      !.http_attempts = IF outcome = "not sent" THEN @ ELSE @ + 1,
                      !.passes = @ + 1,
                      !.transient_only =
                          @ /\ outcome \in AdapterRetried \cup {"body error"},
                      !.timeouts = IF outcome = "error" THEN @ + 1 ELSE @,
                      !.rebuilds = IF reset THEN @ + 1 ELSE @,
                      !.rebuilt_after = IF reset THEN @ \cup {http_call.passes + 1} ELSE @,
                      !.failures_after_rebuild =
                          IF reset THEN @ \cup {s.consecutive_failures} ELSE @,
                      !.last = outcome]
    /\ UNCHANGED <<http_config, http_calls, notTransportVars>>

\* The caller takes the response or the raised error.
HttpRequestEnd ==
    /\ http_call.pc \in {"returned", "raised"}
    /\ http_call' = [http_call EXCEPT !.pc = "idle"]
    /\ UNCHANGED <<http_config, http_stats, http_session, http_calls, notTransportVars>>

InitTransport ==
    /\ http_config \in [max_retries : 0..MaxAdapterRetries,
                        recovery_attempts : 0..MaxTransportRecoveryAttempts,
                        max_consecutive_failures : 1..MaxConsecutiveFailures,
                        allow_redirects : BOOLEAN]
    /\ http_stats = InitStats
    /\ http_session = 1
    /\ http_call = IdleHttpCall
    /\ http_calls = 0
    /\ IdleRequestPart
    /\ IdleScrapePart
    /\ IdleVolumesPart
    /\ IdleUltraPart
    /\ IdleCachePart
    /\ IdleSmartPart
    /\ IdleSessPart
    /\ IdleRetryPart
    /\ IdleBackupPart
    /\ IdleMonitorPart
    /\ IdlePoolPart
    /\ IdleSafePart
    /\ IdleChunkPart

NextTransport ==
    \/ \E elapsed \in BOOLEAN, stale \in BOOLEAN : HttpRequestStart(elapsed, stale)
    \/ \E outcome \in HttpOutcomes : HttpAdapterRetry(outcome)
    \/ HttpRedirect
    \/ HttpSuccess
    \/ \E outcome \in HttpOutcomes : HttpPassFails(outcome)
    \/ HttpRequestEnd

SpecTransport == InitTransport /\ [][NextTransport]_vars

\* C19: a _request call ends, with a 200 response or with the last error
\* raised, after at most max_retries + recovery_attempts + 1 HTTP attempts,
\* the adapter's attempts counted.
C19_HttpAttemptsBounded ==
    /\ http_call.pc = "returned" => http_call.last = "200"
    /\ http_call.pc = "raised" => http_call.last /= "200"
    /\ http_call.pc \in {"returned", "raised"}
           => http_call.http_attempts
                  <= http_config.max_retries + http_config.recovery_attempts + 1

\* C20: a _request call on a URL that keeps failing transiently rebuilds the
\* session exactly once, after the first self.session.request has used up the
\* adapter's retries and before a later one, whatever recovery_attempts and
\* the health at entry are; recoveries_performed is then one more than at
\* entry and consecutive_failures was 0 right after the rebuild.
C20_OneRebuildPerFailingCall ==
    (http_call.pc = "raised" /\ http_call.transient_only)
        => /\ http_call.rebuilds = 1
           /\ \A p \in http_call.rebuilt_after : 1 <= p /\ p < http_call.passes
           /\ http_stats.recoveries_performed = http_call.recoveries_at_entry + 1
           /\ http_call.failures_after_rebuild = {0}

\* C22: after two page fetches that each time out twice and succeed on the
\* third attempt, the session statistics show retries_used >= 4 and
\* recoveries_performed = 0.
C22_RetriesCounted ==
    (http_calls = 2 /\ http_call.pc = "returned" /\ http_call.third_try_successes = 2)
        => /\ http_stats.retries_used >= 4
           /\ http_stats.recoveries_performed = 0

\* C26: every attempt of _request (every self.session.request it makes) adds
\* exactly 1 to total_requests and 1 to exactly one of successful_requests and
\* failed_requests, and nothing else changes total_requests.
C26_AttemptCountedOnce ==
    [][LET attempted == /\ http_call.pc = "http"
                        /\ http_call'.passes = http_call.passes + 1
           d_total   == http_stats'.total_requests - http_stats.total_requests
           d_success == http_stats'.successful_requests - http_stats.successful_requests
           d_failed  == http_stats'.failed_requests - http_stats.failed_requests
       IN  IF attempted
           THEN d_total = 1 /\ {d_success, d_failed} = {0, 1}
           ELSE d_total = 0]_vars

(***************************************************************************)
(* Part 11: ReliabilityMonitor (src/ultra_reliability_system.py) called by *)
(* any number of threads; every method holds self.lock for its whole body, *)
(* so each call is one step.                                               *)
(***************************************************************************)

\* Bound of the monitor model.
MaxMonitorCalls == 5

\* ReliabilityMonitor.record_retry (lines 106-109).
record_retry(s) == [s EXCEPT !.retries_used = @ + 1]

MonRecordSuccess ==
    /\ mon_history.calls < MaxMonitorCalls
    /\ mon_stats' = [counters |-> record_success(mon_stats.counters), stale |-> FALSE]
    /\ mon_history' = [failures_since_success |-> 0, calls |-> mon_history.calls + 1]
    /\ mon_health' = [asked |-> FALSE, healthy |-> TRUE]
    /\ UNCHANGED <<mon_config, notMonitorVars>>

MonRecordFailure ==
    /\ mon_history.calls < MaxMonitorCalls
    /\ mon_stats' = [mon_stats EXCEPT !.counters = record_failure(@)]
    /\ mon_history' = [failures_since_success |-> mon_history.failures_since_success + 1,
                       calls |-> mon_history.calls + 1]
    /\ mon_health' = [asked |-> FALSE, healthy |-> TRUE]
    /\ UNCHANGED <<mon_config, notMonitorVars>>

MonRecordRetry ==
    /\ mon_history.calls < MaxMonitorCalls
    /\ mon_stats' = [mon_stats EXCEPT !.counters = record_retry(@)]
    /\ mon_history' = [mon_history EXCEPT !.calls = @ + 1]
    /\ mon_health' = [asked |-> FALSE, healthy |-> TRUE]
    /\ UNCHANGED <<mon_config, notMonitorVars>>

MonRecordRecovery ==
    /\ mon_history.calls < MaxMonitorCalls
    /\ mon_stats' = [mon_stats EXCEPT !.counters = record_recovery(@)]
    /\ mon_history' = [mon_history EXCEPT !.calls = @ + 1]
    /\ mon_health' = [asked |-> FALSE, healthy |-> TRUE]
    /\ UNCHANGED <<mon_config, notMonitorVars>>

\* More than 300 seconds go by without a record_success.
MonTimePasses ==
    /\ ~mon_stats.stale
    /\ mon_stats' = [mon_stats EXCEPT !.stale = TRUE]
    /\ mon_health' = [asked |-> FALSE, healthy |-> TRUE]
    /\ UNCHANGED <<mon_config, mon_history, notMonitorVars>>

MonIsHealthy ==
    /\ ~mon_health.asked
    /\ mon_health' = [asked |-> TRUE,
                      healthy |-> is_healthy(mon_stats.counters, mon_config, mon_stats.stale)]
    /\ UNCHANGED <<mon_config, mon_stats, mon_history, notMonitorVars>>

InitMonitor ==
    /\ mon_config \in [max_consecutive_failures : 1..MaxConsecutiveFailures]
    /\ mon_stats = [counters |-> InitStats, stale |-> FALSE]
    /\ mon_history = [failures_since_success |-> 0, calls |-> 0]
    /\ mon_health = [asked |-> FALSE, healthy |-> TRUE]
    /\ IdleRequestPart
    /\ IdleScrapePart
    /\ IdleVolumesPart
    /\ IdleUltraPart
    /\ IdleCachePart
    /\ IdleSmartPart
    /\ IdleSessPart
    /\ IdleRetryPart
    /\ IdleBackupPart
    /\ IdleTransportPart
    /\ IdlePoolPart
    /\ IdleSafePart
    /\ IdleChunkPart

NextMonitor ==
    \/ MonRecordSuccess
    \/ MonRecordFailure
    \/ MonRecordRetry
    \/ MonRecordRecovery
    \/ MonTimePasses
    \/ MonIsHealthy

SpecMonitor == InitMonitor /\ [][NextMonitor]_vars

\* C21: consecutive_failures is the number of failures recorded since the
\* last recorded success, whatever record_* calls were made, and is_healthy
\* returns false exactly when that number is at least
\* max_consecutive_failures or the last success is more than 300 s old.
C21_HealthyIffFewFailures ==
    /\ mon_stats.counters.consecutive_failures = mon_history.failures_since_success
    /\ mon_health.asked
           => (~mon_health.healthy
                   <=> (\/ mon_history.failures_since_success
                               >= mon_config.max_consecutive_failures
                        \/ mon_stats.stale))

(***************************************************************************)
(* Part 12: AsyncPageExtractor.extract_pages_batch_async                   *)
(* (src/core/enhanced_shamela_scraper.py): one task per page of the range, *)
(* run together by asyncio.gather.                                         *)
(***************************************************************************)

\* Bounds of the page pool model.
MaxPoolRetries == 3

MaxPoolPages == 2

\* What session.get(url) can meet: status 200 with page content, status 200
\* with nothing to extract, 404, another status ("500"), or an exception.
PoolOutcomes == {"200", "200 empty", "404", "500", "exception"}

\* A task before its first pass of `for attempt in range(retries)`.
NewPoolTask(retries) ==
    [pc |-> IF retries > 0 THEN "running" ELSE "done", attempt |-> 0, requests |-> 0,
     result |-> None, outcomes |-> {}]

\* One pass of the loop of extract_single_page_async (lines 1969-2003) for
\* page p whose request meets outcome: content is returned, 404 returns None,
\* everything else sleeps and goes to the next pass; after the last pass None
\* is returned.
PoolAttempt(p, outcome) ==
    /\ p \in DOMAIN pool_tasks
    /\ pool_tasks[p].pc = "running"
    /\ LET t     == pool_tasks[p]
           ended == outcome \in {"200", "404"} \/ t.attempt + 1 >= pool_config.retries
       IN  pool_tasks' =
               [pool_tasks EXCEPT ![p] =
                   [pc |-> IF ended THEN "done" ELSE "running",
                    attempt |-> t.attempt + 1,
                    requests |-> t.requests + 1,
                    result |-> IF outcome = "200" THEN Some(p) ELSE None,
                    outcomes |-> t.outcomes \cup {outcome}]]
    /\ UNCHANGED <<pool_config, pool_range, pool_results, notPoolVars>>

RECURSIVE PoolValidResults(_, _)
PoolValidResults(tasks, p) ==
    IF p > Len(tasks) THEN <<>>
    ELSE (IF tasks[p].result /= None THEN <<ValueOf(tasks[p].result)>> ELSE <<>>)
         \o PoolValidResults(tasks, p + 1)

\* asyncio.gather has every task's result; the PageContent results are kept
\* in the order of the pages (lines 2008-2018).
PoolGather ==
    /\ pool_tasks /= <<>>
    /\ \A p \in DOMAIN pool_tasks : pool_tasks[p].pc = "done"
    /\ pool_results = <<>>
    /\ pool_results' = PoolValidResults(pool_tasks, 1)
    /\ pool_tasks' = [p \in DOMAIN pool_tasks |-> [pool_tasks[p] EXCEPT !.pc = "gathered"]]
    /\ UNCHANGED <<pool_config, pool_range, notPoolVars>>

InitPool ==
    /\ pool_config \in [retries : 0..MaxPoolRetries]
    /\ pool_range \in {<<1, n>> : n \in 1..MaxPoolPages}
    /\ pool_tasks = [p \in 1..pool_range[2] |-> NewPoolTask(pool_config.retries)]
    /\ pool_results = <<>>
    /\ IdleRequestPart
    /\ IdleScrapePart
    /\ IdleVolumesPart
    /\ IdleUltraPart
    /\ IdleCachePart
    /\ IdleSmartPart
    /\ IdleSessPart
    /\ IdleRetryPart
    /\ IdleBackupPart
    /\ IdleTransportPart
    /\ IdleMonitorPart
    /\ IdleSafePart
    /\ IdleChunkPart

NextPool ==
    \/ \E p \in 1..MaxPoolPages, outcome \in PoolOutcomes : PoolAttempt(p, outcome)
    \/ PoolGather

SpecPool == InitPool /\ [][NextPool]_vars

\* C23: one run of extract_pages_batch_async issues at most one HTTP request
\* per page, whatever the responses are.
C23_PoolNeverRetries ==
    \A p \in DOMAIN pool_tasks : pool_tasks[p].requests <= 1

(***************************************************************************)
(* Part 13: safe_request (src/core/enhanced_shamela_scraper.py).           *)
(***************************************************************************)

\* Bound of the safe_request model.
MaxSafeRetries == 3

\* total=3 of the Retry that OptimizedHTTPSession mounts on its adapter
\* (lines 224-228): the adapter repeats an HTTP attempt up to 3 times.
SafeRetryTotal == 3

\* The redirects one http_session.get is given to follow (requests gives up
\* after 30 of them).
MaxSafeRedirects == 2

\* What one HTTP attempt of the adapter can meet and retry: a connection or
\* read error, a status of status_forcelist = [500, 502, 503, 504], or a 413
\* or 429 that carries a Retry-After header ("429 retry-after": the Retry
\* respects the header while total > 0).
SafeRetriedOutcomes == {"connection error", "503", "429 retry-after"}

\* What http_session.get can give safe_request: a response with status 200,
\* a 404 whose text says the page does not exist, another 404, another
\* status of 400 or more outside status_forcelist ("403": raise_for_status
\* raises), a 413 or 429 with Retry-After that the adapter has no retry left
\* for, a status below 400 other than 200 ("204": raise_for_status returns),
\* or a requests.RequestException: the error the adapter raises when its
\* retries are used up ("connection error", "503"), a response whose body
\* stalls or is cut after its headers ("body error": the body is read after
\* the adapter has returned), or a request refused before anything is sent
\* ("not sent": InvalidSchema, InvalidURL).
SafeOutcomes ==
    {"200", "404 not found", "404", "403", "429 retry-after", "204",
     "connection error", "503", "body error", "not sent"}

\* The state of a safe_request call at its first line: attempt is the loop
\* variable, adapter_retries the retries the adapter made for the current
\* request of http_session.get, redirects the redirects that get followed,
\* attempts the HTTP attempts made by the call so far.
NewSafeCall ==
    [pc |-> "start", attempt |-> 0, adapter_retries |-> 0, redirects |-> 0,
     unsendable |-> FALSE, attempts |-> 0, last_outcome |-> "none", ended |-> "no"]

\* safe_request is called, for the first time or again: the cache lookup of
\* lines 755-759, then the loop is entered.
SafeStart ==
    /\ safe_call.pc \in {"start", "done"}
    /\ safe_call' =
           IF safe_args.use_cache /\ safe_args.cached
           THEN [NewSafeCall EXCEPT !.pc = "done", !.ended = "returned 200"]
           ELSE [NewSafeCall EXCEPT !.pc = "loop"]
    /\ UNCHANGED <<safe_args, notSafeVars>>

\* Inside http_session.get (line 777) an HTTP attempt meets an outcome the
\* adapter retries, and the adapter has retries left: it makes another HTTP
\* attempt.
SafeAdapterRetry(outcome) ==
    /\ safe_call.pc = "loop"
    /\ ~safe_call.unsendable
    /\ safe_call.adapter_retries < SafeRetryTotal
    /\ safe_call' = [safe_call EXCEPT !.attempts = @ + 1,
                                      !.adapter_retries = @ + 1,
                                      !.last_outcome = outcome]
    /\ UNCHANGED <<safe_args, notSafeVars>>

\* Inside http_session.get (line 777) an HTTP attempt is answered with a
\* redirect: Session.get follows it, and the adapter gives the request for
\* the Location the whole Retry again.
SafeRedirect ==
    /\ safe_call.pc = "loop"
    /\ ~safe_call.unsendable
    /\ safe_call.redirects < MaxSafeRedirects
    /\ safe_call' = [safe_call EXCEPT !.attempts = @ + 1,
                                      !.adapter_retries = 0,
                                      !.redirects = @ + 1,
                                      !.last_outcome = "302"]
    /\ UNCHANGED <<safe_args, notSafeVars>>

\* How one pass of `for attempt in range(retries)` (lines 761-802) ends when
\* http_session.get gives outcome: "return", "raise", or "next" for going on
\* to the next value of attempt.
safe_pass(attempt, retries, outcome) ==
    CASE outcome = "200" -> "return"
      [] outcome = "404 not found" -> IF attempt = retries - 1 THEN "raise" ELSE "next"
      [] outcome = "404" -> IF attempt < retries - 1 THEN "next" ELSE "raise"
      [] outcome = "204" -> "next"
      [] OTHER -> IF attempt < retries - 1 THEN "next" ELSE "raise"

\* The end of http_session.get and the rest of the pass of the loop: the
\* last HTTP attempt, or none when the request is refused before it is sent
\* (the URL of the call is refused on every pass, the Location of a redirect
\* can be refused on any).  A 200 response is stored in global_cache when
\* use_cache is set (lines 779-783); when range(retries) is used up the
\* function ends without a return statement, that is it returns None.
SafeAttempt(outcome) ==
    /\ safe_call.pc = "loop"
    /\ outcome \in SafeRetriedOutcomes => safe_call.adapter_retries = SafeRetryTotal
    /\ safe_call.unsendable => outcome = "not sent"
    /\ outcome = "not sent"
           => /\ safe_call.adapter_retries = 0
              /\ safe_call.redirects > 0 \/ safe_call.unsendable \/ safe_call.attempt = 0
    /\ LET how  == safe_pass(safe_call.attempt, safe_args.retries, outcome)
           last == safe_call.attempt + 1 >= safe_args.retries
       IN  /\ safe_call' =
               [safe_call EXCEPT
                   !.attempts = IF outcome = "not sent" THEN @ ELSE @ + 1,
                   !.adapter_retries = 0,
                   !.redirects = 0,
                   !.unsendable = outcome = "not sent" /\ safe_call.redirects = 0,
                   !.last_outcome = outcome,
                   !.attempt = IF how = "next" /\ ~last THEN @ + 1 ELSE @,
                   !.pc = IF how = "next" /\ ~last THEN "loop" ELSE "done",
                   !.ended = CASE how = "return" -> "returned 200"
                               [] how = "raise" -> "raised EnhancedShamelaScraperError"
                               [] OTHER -> IF last THEN "returned None" ELSE "no"]
           /\ safe_args' = [safe_args EXCEPT
                   !.cached = IF how = "return" /\ safe_args.use_cache THEN TRUE ELSE @]
    /\ UNCHANGED notSafeVars

InitSafe ==
    /\ safe_args \in [retries : 1..MaxSafeRetries, use_cache : BOOLEAN, cached : BOOLEAN]
    /\ safe_call = NewSafeCall
    /\ IdleRequestPart
    /\ IdleScrapePart
    /\ IdleVolumesPart
    /\ IdleUltraPart
    /\ IdleCachePart
    /\ IdleSmartPart
    /\ IdleSessPart
    /\ IdleRetryPart
    /\ IdleBackupPart
    /\ IdleTransportPart
    /\ IdleMonitorPart
    /\ IdlePoolPart
    /\ IdleChunkPart

NextSafe ==
    \/ SafeStart
    \/ \E outcome \in SafeRetriedOutcomes : SafeAdapterRetry(outcome)
    \/ SafeRedirect
    \/ \E outcome \in SafeOutcomes : SafeAttempt(outcome)

SpecSafe == InitSafe /\ [][NextSafe]_vars

\* C28: for retries >= 1, safe_request makes at most retries HTTP attempts
\* and ends either by returning a status-200 response or by raising
\* EnhancedShamelaScraperError; it never returns None or another response.
C28_SafeRequestEnds ==
    /\ safe_call.attempts <= safe_args.retries
    /\ safe_call.pc = "done"
           => safe_call.ended \in {"returned 200", "raised EnhancedShamelaScraperError"}

(***************************************************************************)
(* Part 14: MultiprocessExtractor._create_page_chunks, the split of a      *)
(* book's pages into ranges for the worker processes                       *)
(* (src/core/enhanced_shamela_scraper.py and                               *)
(* src/enhanced_shamela_scraper_v2.py, the same code in both).             *)
(***************************************************************************)

\* The largest process_chunk_size, max_processes and total_pages tried.
MaxChunkSize == 3
MaxProcesses == 4
MaxTotalPages == 12

\* chunk_size of _create_page_chunks (lines 2069-2070).
page_chunk_size(config, total) ==
    Max(config.process_chunk_size, total \div config.max_processes)

\* A _create_page_chunks whose ranges all have chunk_size pages, the last one
\* as well.
create_page_chunks_unclipped(config, total) ==
    LET chunk_size == page_chunk_size(config, total)
        n == (total + chunk_size - 1) \div chunk_size
    IN  [k \in 1..n |-> <<1 + (k - 1) * chunk_size, (k - 1) * chunk_size + chunk_size>>]

\* MultiprocessExtractor._create_page_chunks (lines 2067-2077): i runs over
\* range(1, total_pages + 1, chunk_size), which has ceil(total_pages /
\* chunk_size) elements, and each range ends at min(i + chunk_size - 1,
\* total_pages).
create_page_chunks(config, total) ==
    LET chunk_size == page_chunk_size(config, total)
        n == (total + chunk_size - 1) \div chunk_size
        i(k) == 1 + (k - 1) * chunk_size
    IN  [k \in 1..n |-> <<i(k), Min(i(k) + chunk_size - 1, total)>>]

\* extract_book_multiprocess calls _create_page_chunks(total_pages)
\* (line 2035).
CreatePageChunks(total) ==
    /\ chunk_total' = Some(total)
    /\ page_chunks' = create_page_chunks(chunk_config, total)
    /\ UNCHANGED <<chunk_config, notChunkVars>>

\* MultiprocessExtractor(config) with process_chunk_size >= 1 and
\* max_processes >= 1.
InitChunks ==
    /\ chunk_config \in [process_chunk_size : 1..MaxChunkSize,
                         max_processes : 1..MaxProcesses]
    /\ chunk_total = None
    /\ page_chunks = <<>>
    /\ IdleRequestPart
    /\ IdleScrapePart
    /\ IdleVolumesPart
    /\ IdleUltraPart
    /\ IdleCachePart
    /\ IdleSmartPart
    /\ IdleSessPart
    /\ IdleRetryPart
    /\ IdleBackupPart
    /\ IdleTransportPart
    /\ IdleMonitorPart
    /\ IdlePoolPart
    /\ IdleSafePart

NextChunks == \E total \in 1..MaxTotalPages : CreatePageChunks(total)

SpecChunks == InitChunks /\ [][NextChunks]_vars

\* C30: the ranges _create_page_chunks returns partition 1..total_pages: the
\* first starts at 1, every range has start <= end, each range ends one
\* before the next starts, the last ends at total_pages, and every page is in
\* exactly one range.
C30_ChunksPartitionPages ==
    chunk_total /= None
        => /\ Len(page_chunks) >= 1
           /\ page_chunks[1][1] = 1
           /\ \A k \in 1..Len(page_chunks) : page_chunks[k][1] <= page_chunks[k][2]
           /\ \A k \in 1..(Len(page_chunks) - 1) :
                  page_chunks[k][2] + 1 = page_chunks[k + 1][1]
           /\ page_chunks[Len(page_chunks)][2] = ValueOf(chunk_total)
           /\ \A p \in 1..ValueOf(chunk_total) :
                  Cardinality({k \in 1..Len(page_chunks) :
                                  page_chunks[k][1] <= p /\ p <= page_chunks[k][2]}) = 1

\* A call whose chunk size came from total_pages // max_processes and whose
\* last range is shorter than the others.
C30_Witness ==
    /\ chunk_total /= None
    /\ chunk_config.process_chunk_size
           < ValueOf(chunk_total) \div chunk_config.max_processes
    /\ Len(page_chunks) >= 3
    /\ page_chunks[Len(page_chunks)][2] - page_chunks[Len(page_chunks)][1]
           < page_chunks[1][2] - page_chunks[1][1]

====
